---- MODULE Spec2Model ----
(***************************************************************************)
(* CodeRally backend: the lobby manager (app/core/lobby_manager.py), the   *)
(* session registry of the WebSocket route (app/api/routes/game.py) and    *)
(* the game engine (app/core/engine.py), as state machines.                *)
(*                                                                         *)
(* Three specifications share the module:                                  *)
(*   SpecLobby   - the LobbyManager API, called with arbitrary arguments   *)
(*   SpecServer  - WebSocket connections, the session registry and the     *)
(*                 lobbies the sessions come from                          *)
(*   SpecEngine  - one GameEngine: race status machine, bots, checkpoints  *)
(***************************************************************************)
EXTENDS Integers, Sequences, FiniteSets, TLC

(***************************************************************************)
(* Bounds of the model.                                                    *)
(***************************************************************************)
\* lobbies created in one run (lobby ids are fresh uuid4 values)
MaxLobbies == 1
\* largest max_players a settings object carries in the model
\* (the REST route accepts 1..8, lobbies.py:32 and lobbies.py:40)
MaxPlayersChoice == 3
\* sessions created in one run (session ids are fresh uuid4 values)
MaxSessions == 2
\* WebSocket connections opened in one run
MaxConns == 2

\* human player ids and bot member ids ("bot-<owner>-<bot_id>")
Humans == {"a", "b"}
BotIds == {"bot-a-1"}
PlayerIds == Humans \cup BotIds

LobbyIds == 1..MaxLobbies

VARIABLES
    lobbies,        \* LobbyManager._lobbies: lobby_id -> Lobby
    join_codes,     \* LobbyManager._join_codes: join_code -> lobby_id
    next_lobby,     \* the next fresh lobby id (uuid4)
    ret             \* whether the last LobbyManager call succeeded
                    \* (True, or a value other than None)

lobbyVars == <<lobbies, join_codes, next_lobby, ret>>

VARIABLES
    game_sessions,       \* game.py _game_sessions: the registered session ids
    engines,             \* every GameEngine created so far, by session id
    lobby_sessions,      \* game.py _lobby_sessions
    active_connections,  \* ConnectionManager.active_connections: key -> websockets
    connection_metadata, \* ConnectionManager.connection_metadata: websocket -> dict
    player_to_ws,        \* ConnectionManager.player_to_ws: player id -> websocket
    ws,                  \* each game_websocket handler: its position and locals
    next_session         \* the next fresh session id (uuid4)

serverVars == <<game_sessions, engines, lobby_sessions, active_connections,
                connection_metadata, player_to_ws, ws>>

VARIABLES
    tick,           \* GameState.tick
    race_info,      \* GameState.race_info
    players,        \* GameState.players: player_id -> PlayerState
    order,          \* the insertion order of the players dict
    clock,          \* the wall clock, time.time()
    hooks           \* the bot hooks the last step invoked, by player

engineVars == <<tick, race_info, players, order, clock, hooks>>

VARIABLES
    active_broadcasters, \* game.py _active_broadcasters
    broadcasters,        \* the state_broadcaster tasks created so far
    heartbeats,          \* the heartbeat_monitor task of each connection
    now,                 \* time.time() as the server reads it
    last_pong_time,      \* connection_metadata[websocket]['last_pong_time']
    socket,              \* each websocket: not opened, open, or how it closed
    session_tick,        \* engine.state.tick of each session's engine
    delivered,           \* the tick of the last game_state each client got
    received,            \* the clients the last broadcast delivered to
    session_input,       \* players[player_id].input in each session's engine
    last_message         \* the last input message each handler received

realtimeVars == <<active_broadcasters, broadcasters, heartbeats, now,
                  last_pong_time, socket, session_tick, delivered, received,
                  session_input, last_message>>

vars == <<lobbyVars, serverVars, next_session, engineVars, realtimeVars>>

(***************************************************************************)
(* app/core/lobby.py                                                       *)
(***************************************************************************)
LobbyMember(player_id, is_bot, ready) ==
    [player_id |-> player_id, is_bot |-> is_bot, ready |-> ready]

\* the keys of lobby.members, a dict in insertion order
MemberIds(lobby) == {lobby.members[i].player_id : i \in DOMAIN lobby.members}

get_member_count(lobby) == Len(lobby.members)

is_host(lobby, player_id) == player_id = lobby.host_player_id

is_full(lobby) == Len(lobby.members) >= lobby.settings.max_players

can_start_race(lobby) ==
    /\ lobby.status = "waiting"
    /\ Len(lobby.members) >= 1
    /\ lobby.host_player_id \in MemberIds(lobby)

\* the host id is left on the member that has just been removed
transfer_host_keep(lobby) == lobby

\* the host role passes to the member that joined last
transfer_host_last(lobby) ==
    IF lobby.members = <<>> THEN lobby
    ELSE [lobby EXCEPT !.host_player_id =
                           lobby.members[Len(lobby.members)].player_id]

transfer_host(lobby) ==
    IF lobby.members = <<>> THEN lobby
    ELSE [lobby EXCEPT !.host_player_id = lobby.members[1].player_id]

\* del lobby.members[player_id]
RemoveMember(members, player_id) ==
    SelectSeq(members, LAMBDA m : m.player_id # player_id)

(***************************************************************************)
(* app/core/lobby_manager.py: every method is an operator from the         *)
(* manager's state M = [lobbies, join_codes] and its arguments to the new  *)
(* state and the returned value.                                           *)
(***************************************************************************)
Without(f, k) == [x \in (DOMAIN f) \ {k} |-> f[x]]
With(f, k, v) == [x \in (DOMAIN f) \cup {k} |-> IF x = k THEN v ELSE f[x]]

Mgr(L, J, r) == [lobbies |-> L, join_codes |-> J, ret |-> r]

cleanup_lobby(M, lobby_id) ==
    IF lobby_id \in DOMAIN M.lobbies
    THEN [M EXCEPT !.lobbies = Without(M.lobbies, lobby_id),
                   !.join_codes = Without(M.join_codes, M.lobbies[lobby_id].join_code)]
    ELSE M

\* the join code of a new lobby is unique among the registered ones
\* (retry on collision, then the LOBBY-<uuid> fallback); the model names
\* the code after the lobby id
create_lobby_op(M, lobby_id, host_player_id, max_players) ==
    LET lobby == [lobby_id |-> lobby_id,
                  join_code |-> lobby_id,
                  host_player_id |-> host_player_id,
                  settings |-> [max_players |-> max_players],
                  members |-> <<LobbyMember(host_player_id, FALSE, TRUE)>>,
                  status |-> "waiting",
                  game_session_id |-> 0]
    IN Mgr(With(M.lobbies, lobby_id, lobby),
           With(M.join_codes, lobby.join_code, lobby_id),
           TRUE)

\* a member record is written without the test for an existing member
join_lobby_rejoin(M, lobby_id, player_id) ==
    IF lobby_id \notin DOMAIN M.lobbies THEN [M EXCEPT !.ret = FALSE]
    ELSE LET lobby == M.lobbies[lobby_id] IN
         IF lobby.status # "waiting" THEN [M EXCEPT !.ret = FALSE]
         ELSE IF is_full(lobby) THEN [M EXCEPT !.ret = FALSE]
         ELSE [M EXCEPT !.lobbies[lobby_id].members =
                            Append(@, LobbyMember(player_id, FALSE, FALSE)),
                        !.ret = TRUE]

\* a player is let into a lobby that is already full
join_lobby_when_full(M, lobby_id, player_id) ==
    IF lobby_id \notin DOMAIN M.lobbies THEN [M EXCEPT !.ret = FALSE]
    ELSE LET lobby == M.lobbies[lobby_id] IN
         IF lobby.status # "waiting" THEN [M EXCEPT !.ret = FALSE]
         ELSE IF player_id \in MemberIds(lobby) THEN [M EXCEPT !.ret = TRUE]
         ELSE [M EXCEPT !.lobbies[lobby_id].members =
                            Append(@, LobbyMember(player_id, FALSE, FALSE)),
                        !.ret = TRUE]

join_lobby_op(M, lobby_id, player_id) ==
    IF lobby_id \notin DOMAIN M.lobbies THEN [M EXCEPT !.ret = FALSE]
    ELSE LET lobby == M.lobbies[lobby_id] IN
         IF lobby.status # "waiting" THEN [M EXCEPT !.ret = FALSE]
         ELSE IF is_full(lobby) THEN [M EXCEPT !.ret = FALSE]
         ELSE IF player_id \in MemberIds(lobby) THEN [M EXCEPT !.ret = TRUE]
         ELSE [M EXCEPT !.lobbies[lobby_id].members =
                            Append(@, LobbyMember(player_id, FALSE, FALSE)),
                        !.ret = TRUE]

leave_lobby_op(M, lobby_id, player_id) ==
    IF \/ lobby_id \notin DOMAIN M.lobbies
       \/ player_id \notin MemberIds(M.lobbies[lobby_id])
    THEN [M EXCEPT !.ret = FALSE]
    ELSE LET lobby == [M.lobbies[lobby_id] EXCEPT
                           !.members = RemoveMember(@, player_id)] IN
         IF is_host(lobby, player_id)
         THEN IF lobby.members # <<>>
              THEN [M EXCEPT !.lobbies[lobby_id] = transfer_host(lobby),
                             !.ret = TRUE]
              ELSE [cleanup_lobby(
                        [M EXCEPT !.lobbies[lobby_id] =
                                      [lobby EXCEPT !.status = "disbanded"]],
                        lobby_id)
                    EXCEPT !.ret = TRUE]
         ELSE [M EXCEPT !.lobbies[lobby_id] = lobby, !.ret = TRUE]

\* returns the bot's player id (TRUE in the model), or None (FALSE)
add_bot_to_lobby_op(M, lobby_id, bot_player_id) ==
    IF \/ lobby_id \notin DOMAIN M.lobbies
       \/ M.lobbies[lobby_id].status # "waiting"
    THEN [M EXCEPT !.ret = FALSE]
    ELSE LET lobby == M.lobbies[lobby_id] IN
         IF is_full(lobby) THEN [M EXCEPT !.ret = FALSE]
         ELSE IF bot_player_id \in MemberIds(lobby) THEN [M EXCEPT !.ret = FALSE]
         ELSE [M EXCEPT !.lobbies[lobby_id].members =
                            Append(@, LobbyMember(bot_player_id, TRUE, TRUE)),
                        !.ret = TRUE]

update_settings_op(M, lobby_id, player_id, settings) ==
    IF \/ lobby_id \notin DOMAIN M.lobbies
       \/ ~is_host(M.lobbies[lobby_id], player_id)
    THEN [M EXCEPT !.ret = FALSE]
    ELSE IF M.lobbies[lobby_id].status # "waiting" THEN [M EXCEPT !.ret = FALSE]
    ELSE [M EXCEPT !.lobbies[lobby_id].settings = settings, !.ret = TRUE]

\* returns (game_session_id, track) (TRUE in the model: the id is left in
\* lobby.game_session_id), or None (FALSE); game_session_id is a fresh
\* uuid4, passed in by the caller
start_race_op(M, lobby_id, player_id, game_session_id) ==
    IF lobby_id \notin DOMAIN M.lobbies THEN [M EXCEPT !.ret = FALSE]
    ELSE LET lobby == M.lobbies[lobby_id] IN
         IF ~is_host(lobby, player_id) THEN [M EXCEPT !.ret = FALSE]
         ELSE IF ~can_start_race(lobby) THEN [M EXCEPT !.ret = FALSE]
         ELSE [M EXCEPT !.lobbies[lobby_id].game_session_id = game_session_id,
                        !.lobbies[lobby_id].status = "starting",
                        !.ret = TRUE]

transition_to_racing_op(M, lobby_id) ==
    IF \/ lobby_id \notin DOMAIN M.lobbies
       \/ M.lobbies[lobby_id].status # "starting"
    THEN [M EXCEPT !.ret = FALSE]
    ELSE [M EXCEPT !.lobbies[lobby_id].status = "racing", !.ret = TRUE]

\* the race is marked finished whatever the status of the lobby
finish_race_any_status(M, lobby_id) ==
    IF lobby_id \notin DOMAIN M.lobbies THEN [M EXCEPT !.ret = FALSE]
    ELSE [M EXCEPT !.lobbies[lobby_id].status = "finished", !.ret = TRUE]

finish_race_op(M, lobby_id) ==
    IF \/ lobby_id \notin DOMAIN M.lobbies
       \/ M.lobbies[lobby_id].status # "racing"
    THEN [M EXCEPT !.ret = FALSE]
    ELSE [M EXCEPT !.lobbies[lobby_id].status = "finished", !.ret = TRUE]

reset_lobby_op(M, lobby_id, player_id) ==
    IF \/ lobby_id \notin DOMAIN M.lobbies
       \/ ~is_host(M.lobbies[lobby_id], player_id)
    THEN [M EXCEPT !.ret = FALSE]
    ELSE IF M.lobbies[lobby_id].status # "finished" THEN [M EXCEPT !.ret = FALSE]
    ELSE [M EXCEPT !.lobbies[lobby_id].status = "waiting",
                   !.lobbies[lobby_id].game_session_id = 0,
                   !.lobbies[lobby_id].members =
                       [i \in DOMAIN @ |->
                           IF @[i].is_bot THEN @[i]
                           ELSE [@[i] EXCEPT !.ready = FALSE]],
                   !.ret = TRUE]

disband_lobby_op(M, lobby_id, player_id) ==
    IF \/ lobby_id \notin DOMAIN M.lobbies
       \/ ~is_host(M.lobbies[lobby_id], player_id)
    THEN [M EXCEPT !.ret = FALSE]
    ELSE [cleanup_lobby(
              [M EXCEPT !.lobbies[lobby_id].status = "disbanded"], lobby_id)
          EXCEPT !.ret = TRUE]

\* created_at grows with the lobby id: the lobbies older than max_age are
\* the registered ones up to some id
cleanup_stale_lobbies_op(M, oldest) ==
    LET to_cleanup == {l \in DOMAIN M.lobbies :
                          l <= oldest \/ M.lobbies[l].status = "disbanded"}
    IN [M EXCEPT !.lobbies = [l \in (DOMAIN M.lobbies) \ to_cleanup |-> M.lobbies[l]],
                 !.join_codes = [c \in {k \in DOMAIN M.join_codes :
                                           \A l \in to_cleanup :
                                               M.lobbies[l].join_code # k}
                                 |-> M.join_codes[c]]]

\* the current state of the manager
Cur == Mgr(lobbies, join_codes, ret)

Apply(M) ==
    /\ lobbies' = M.lobbies
    /\ join_codes' = M.join_codes
    /\ ret' = M.ret

(***************************************************************************)
(* The LobbyManager API as actions: any caller, any argument.              *)
(***************************************************************************)
InitLobby ==
    /\ lobbies = << >>
    /\ join_codes = << >>
    /\ next_lobby = 1
    /\ ret = TRUE

create_lobby(host_player_id, max_players) ==
    /\ next_lobby <= MaxLobbies
    /\ Apply(create_lobby_op(Cur, next_lobby, host_player_id, max_players))
    /\ next_lobby' = next_lobby + 1

join_lobby(lobby_id, player_id) ==
    /\ Apply(join_lobby_op(Cur, lobby_id, player_id))
    /\ UNCHANGED next_lobby

leave_lobby(lobby_id, player_id) ==
    /\ Apply(leave_lobby_op(Cur, lobby_id, player_id))
    /\ UNCHANGED next_lobby

add_bot_to_lobby(lobby_id, bot_player_id) ==
    /\ Apply(add_bot_to_lobby_op(Cur, lobby_id, bot_player_id))
    /\ UNCHANGED next_lobby

update_settings(lobby_id, player_id, max_players) ==
    /\ Apply(update_settings_op(Cur, lobby_id, player_id,
                                [max_players |-> max_players]))
    /\ UNCHANGED next_lobby

\* the session id start_race makes up is fresh: next_session
start_race(lobby_id, player_id) ==
    LET M1 == start_race_op(Cur, lobby_id, player_id, next_session)
    IN /\ M1.ret => next_session <= MaxSessions
       /\ Apply(M1)
       /\ next_session' = IF M1.ret THEN next_session + 1 ELSE next_session
       /\ UNCHANGED next_lobby

transition_to_racing(lobby_id) ==
    /\ Apply(transition_to_racing_op(Cur, lobby_id))
    /\ UNCHANGED next_lobby

finish_race(lobby_id) ==
    /\ Apply(finish_race_op(Cur, lobby_id))
    /\ UNCHANGED next_lobby

reset_lobby(lobby_id, player_id) ==
    /\ Apply(reset_lobby_op(Cur, lobby_id, player_id))
    /\ UNCHANGED next_lobby

disband_lobby(lobby_id, player_id) ==
    /\ Apply(disband_lobby_op(Cur, lobby_id, player_id))
    /\ UNCHANGED next_lobby

cleanup_stale_lobbies(age) ==
    /\ Apply([cleanup_stale_lobbies_op(Cur, age) EXCEPT !.ret = TRUE])
    /\ UNCHANGED next_lobby

(***************************************************************************)
(* app/api/routes/game.py: ConnectionManager.  CM is the record of its     *)
(* three maps.  A key of active_connections is the lobby id (lobby mode)   *)
(* or the session id (direct mode): two kinds of uuid, never equal.        *)
(***************************************************************************)
LobbyKey(lobby_id) == <<"lobby", lobby_id>>
SessionKey(session_id) == <<"session", session_id>>

CMgr == [active_connections |-> active_connections,
         connection_metadata |-> connection_metadata,
         player_to_ws |-> player_to_ws]

connect(CM, websocket, key, player_id) ==
    [active_connections |->
         With(CM.active_connections, key,
              (IF key \in DOMAIN CM.active_connections
               THEN CM.active_connections[key] ELSE {}) \cup {websocket}),
     connection_metadata |->
         With(CM.connection_metadata, websocket,
              [player_id |-> player_id, session_id |-> key]),
     player_to_ws |-> With(CM.player_to_ws, player_id, websocket)]

disconnect(CM, websocket, key) ==
    LET ac == IF key \in DOMAIN CM.active_connections
              THEN LET rest == CM.active_connections[key] \ {websocket}
                   IN IF rest = {} THEN Without(CM.active_connections, key)
                      ELSE [CM.active_connections EXCEPT ![key] = rest]
              ELSE CM.active_connections
    IN IF websocket \in DOMAIN CM.connection_metadata
       THEN LET player_id == CM.connection_metadata[websocket].player_id
            IN [active_connections |-> ac,
                connection_metadata |-> Without(CM.connection_metadata, websocket),
                player_to_ws |-> IF player_id \in DOMAIN CM.player_to_ws
                                 THEN Without(CM.player_to_ws, player_id)
                                 ELSE CM.player_to_ws]
       ELSE [CM EXCEPT !.active_connections = ac]

ApplyCM(CM) ==
    /\ active_connections' = CM.active_connections
    /\ connection_metadata' = CM.connection_metadata
    /\ player_to_ws' = CM.player_to_ws

(***************************************************************************)
(* The GameEngine of a session, as the registry sees it: the keys of its   *)
(* players dict, its loop (engine.py start_loop / stop_loop / _game_loop)  *)
(* and the race status.  SpecEngine below models the race itself.  Loop    *)
(* tasks are numbered; task = 0 is _task = None.                           *)
(***************************************************************************)
NewEngine ==
    [players |-> {}, running |-> FALSE, task |-> 0, alive |-> {},
     next_task |-> 1, status |-> "waiting"]

sess_add_player(engine, player_id) ==
    [engine EXCEPT !.players = @ \cup {player_id}]

sess_remove_player(engine, player_id) ==
    [engine EXCEPT !.players = @ \ {player_id}]

\* a bot whose code does not load stays in the engine as a DNF player:
\* add_player has run before load_bot raises
sess_add_bot_player(engine, player_id, loads) ==
    sess_add_player(engine, player_id)

start_loop(engine) ==
    IF engine.running THEN engine
    ELSE [engine EXCEPT !.running = TRUE,
                        !.task = engine.next_task,
                        !.alive = @ \cup {engine.next_task},
                        !.next_task = @ + 1]

\* stop_loop up to its await: _running = False
stop_loop_begin(engine) == [engine EXCEPT !.running = FALSE]

\* stop_loop after its await: _task = None
stop_loop_end(engine) == [engine EXCEPT !.task = 0]

sess_start_race(engine) == [engine EXCEPT !.status = "countdown"]

(***************************************************************************)
(* app/api/routes/game.py: the session registry and the game_websocket     *)
(* handler.  A handler is at "new" (not yet called), "accepting" (direct   *)
(* mode, suspended in manager.connect at websocket.accept), "loop" (in the *)
(* receive loop), "stopping" (suspended in engine.stop_loop) or "closed"   *)
(* (returned).  input and pong messages change nothing modelled here.      *)
(***************************************************************************)
Conns == 1..MaxConns
SessionIds == 1..MaxSessions

NewHandler ==
    [pc |-> "new", is_lobby_mode |-> FALSE, lobby_id |-> 0, session_id |-> 0,
     player_id |-> "", engine |-> 0, awaited |-> 0]

InitServer ==
    /\ game_sessions = {}
    /\ engines = << >>
    /\ lobby_sessions = {}
    /\ active_connections = << >>
    /\ connection_metadata = << >>
    /\ player_to_ws = << >>
    /\ ws = [w \in Conns |-> NewHandler]
    /\ next_session = 1

\* connections are opened in the order of their numbers
IsNext(w) == ws[w].pc = "new" /\ \A v \in Conns : v < w => ws[v].pc # "new"

\* ---- REST routes of app/api/routes/lobbies.py
RestCreateLobby(host_player_id, max_players) ==
    /\ create_lobby(host_player_id, max_players)
    /\ UNCHANGED <<serverVars, next_session>>

RestUpdateSettings(lobby_id, player_id, max_players) ==
    /\ lobby_id \in DOMAIN lobbies
    /\ update_settings(lobby_id, player_id, max_players)
    /\ UNCHANGED <<serverVars, next_session>>

RestDisbandLobby(lobby_id, player_id) ==
    /\ lobby_id \in DOMAIN lobbies
    /\ disband_lobby(lobby_id, player_id)
    /\ UNCHANGED <<serverVars, next_session>>

\* ---- lobby mode: manager.connect(websocket, lobby_id, player_id), then
\* handle_join_lobby
WsConnectLobby(w, lobby_id, player_id) ==
    /\ IsNext(w)
    /\ ApplyCM(connect(CMgr, w, LobbyKey(lobby_id), player_id))
    /\ join_lobby(lobby_id, player_id)
    /\ ws' = [ws EXCEPT ![w] = [NewHandler EXCEPT !.pc = "loop",
                                                  !.is_lobby_mode = TRUE,
                                                  !.lobby_id = lobby_id,
                                                  !.player_id = player_id]]
    /\ UNCHANGED <<game_sessions, engines, lobby_sessions, next_session>>

\* ---- direct mode: get_or_create_session, up to the await in
\* manager.connect.  session_id = 0 is the query parameter left out.
WsConnectDirect(w, session_id, player_id) ==
    /\ IsNext(w)
    /\ IF session_id = 0 \/ session_id \notin game_sessions
       THEN /\ next_session <= MaxSessions
            /\ engines' = With(engines, next_session, NewEngine)
            /\ game_sessions' = game_sessions \cup {next_session}
            /\ next_session' = next_session + 1
            /\ ws' = [ws EXCEPT ![w] = [NewHandler EXCEPT
                                            !.pc = "accepting",
                                            !.session_id = next_session,
                                            !.engine = next_session,
                                            !.player_id = player_id]]
       ELSE /\ ws' = [ws EXCEPT ![w] = [NewHandler EXCEPT
                                            !.pc = "accepting",
                                            !.session_id = session_id,
                                            !.engine = session_id,
                                            !.player_id = player_id]]
            /\ UNCHANGED <<engines, game_sessions, next_session>>
    /\ UNCHANGED <<lobbyVars, lobby_sessions, active_connections,
                   connection_metadata, player_to_ws>>

\* the rest of the set-up: the connection is registered, the loop started
\* if it is not running, the player added if it is not in the engine
WsAccepted(w) ==
    /\ ws[w].pc = "accepting"
    /\ LET h == ws[w]
           e1 == start_loop(engines[h.engine])
           e2 == IF h.player_id \in e1.players THEN e1
                 ELSE sess_add_player(e1, h.player_id)
       IN /\ ApplyCM(connect(CMgr, w, SessionKey(h.session_id), h.player_id))
          /\ engines' = [engines EXCEPT ![h.engine] = e2]
    /\ ws' = [ws EXCEPT ![w].pc = "loop"]
    /\ UNCHANGED <<lobbyVars, game_sessions, lobby_sessions, next_session>>

\* ---- message leave_lobby (either mode): handle_leave_lobby, then break:
\* the handler returns without manager.disconnect
WsLeaveLobby(w) ==
    /\ ws[w].pc = "loop"
    /\ leave_lobby(ws[w].lobby_id, ws[w].player_id)
    /\ ws' = [ws EXCEPT ![w].pc = "closed"]
    /\ UNCHANGED <<game_sessions, engines, lobby_sessions, active_connections,
                   connection_metadata, player_to_ws, next_session>>

\* the engine handle_lobby_start_race builds from the members, in order
RECURSIVE AddMembers(_, _)
AddMembers(engine, members) ==
    IF members = <<>> THEN engine
    ELSE AddMembers(IF Head(members).is_bot
                    THEN sess_add_bot_player(engine, Head(members).player_id, TRUE)
                    ELSE sess_add_player(engine, Head(members).player_id),
                    Tail(members))

\* ---- message start_race in lobby mode: handle_lobby_start_race
WsLobbyStartRace(w) ==
    /\ ws[w].pc = "loop"
    /\ ws[w].is_lobby_mode
    /\ LET M1 == start_race_op(Cur, ws[w].lobby_id, ws[w].player_id, next_session)
       IN IF ~M1.ret
          THEN /\ Apply(M1)
               /\ UNCHANGED <<game_sessions, engines, lobby_sessions, next_session>>
          ELSE /\ next_session <= MaxSessions
               /\ engines' = With(engines, next_session,
                                  start_loop(AddMembers(NewEngine,
                                      M1.lobbies[ws[w].lobby_id].members)))
               /\ game_sessions' = game_sessions \cup {next_session}
               /\ lobby_sessions' = lobby_sessions \cup {next_session}
               /\ Apply(transition_to_racing_op(M1, ws[w].lobby_id))
               /\ next_session' = next_session + 1
    /\ UNCHANGED <<next_lobby, active_connections, connection_metadata,
                   player_to_ws, ws>>

\* ---- message add_bot_to_lobby (either mode): handle_add_bot_to_lobby,
\* for a bot the database holds
WsAddBotToLobby(w, bot_player_id) ==
    /\ ws[w].pc = "loop"
    /\ add_bot_to_lobby(ws[w].lobby_id, bot_player_id)
    /\ UNCHANGED <<serverVars, next_session>>

\* ---- message start_race in direct mode: engine.start_race()
WsDirectStartRace(w) ==
    /\ ws[w].pc = "loop"
    /\ ~ws[w].is_lobby_mode
    /\ engines' = [engines EXCEPT ![ws[w].engine] = sess_start_race(@)]
    /\ UNCHANGED <<lobbyVars, game_sessions, lobby_sessions, active_connections,
                   connection_metadata, player_to_ws, ws, next_session>>

\* ---- message submit_bot in direct mode, for a bot the database holds
\* with a class in its code; loads: whether load_bot accepts the code
WsSubmitBot(w, bot_player_id, loads) ==
    /\ ws[w].pc = "loop"
    /\ ~ws[w].is_lobby_mode
    /\ LET engine == engines[ws[w].engine]
       IN IF \/ engine.status \notin {"waiting", "racing"}
             \/ bot_player_id \in engine.players
          THEN UNCHANGED engines
          ELSE engines' = [engines EXCEPT ![ws[w].engine] =
                               sess_add_bot_player(engine, bot_player_id, loads)]
    /\ UNCHANGED <<lobbyVars, game_sessions, lobby_sessions, active_connections,
                   connection_metadata, player_to_ws, ws, next_session>>

\* ---- WebSocketDisconnect or any other exception in the loop
WsDisconnect(w) ==
    /\ ws[w].pc = "loop"
    /\ LET h == ws[w] IN
       IF h.is_lobby_mode
       THEN /\ ApplyCM(disconnect(CMgr, w, LobbyKey(h.lobby_id)))
            /\ leave_lobby(h.lobby_id, h.player_id)
            /\ ws' = [ws EXCEPT ![w].pc = "closed"]
            /\ UNCHANGED <<game_sessions, engines, lobby_sessions, next_session>>
       ELSE /\ ApplyCM(disconnect(CMgr, w, SessionKey(h.session_id)))
            /\ UNCHANGED <<lobbyVars, lobby_sessions, next_session>>
            /\ IF h.session_id \in lobby_sessions
               THEN /\ ws' = [ws EXCEPT ![w].pc = "closed"]
                    /\ UNCHANGED <<game_sessions, engines>>
               ELSE LET e1 == sess_remove_player(engines[h.engine], h.player_id) IN
                    IF e1.players # {}
                    THEN /\ engines' = [engines EXCEPT ![h.engine] = e1]
                         /\ ws' = [ws EXCEPT ![w].pc = "closed"]
                         /\ UNCHANGED game_sessions
                    ELSE IF e1.task # 0
                    THEN \* await self._task
                         /\ engines' = [engines EXCEPT ![h.engine] = stop_loop_begin(e1)]
                         /\ ws' = [ws EXCEPT ![w].pc = "stopping",
                                             ![w].awaited = e1.task]
                         /\ UNCHANGED game_sessions
                    ELSE /\ engines' = [engines EXCEPT ![h.engine] = stop_loop_begin(e1)]
                         /\ game_sessions' = game_sessions \ {h.session_id}
                         /\ ws' = [ws EXCEPT ![w].pc = "closed"]

\* ---- stop_loop resumes when the awaited task has ended; the session is
\* then deleted from the registry
WsStopped(w) ==
    /\ ws[w].pc = "stopping"
    /\ ws[w].awaited \notin engines[ws[w].engine].alive
    /\ engines' = [engines EXCEPT ![ws[w].engine] = stop_loop_end(@)]
    /\ game_sessions' = game_sessions \ {ws[w].session_id}
    /\ ws' = [ws EXCEPT ![w].pc = "closed"]
    /\ UNCHANGED <<lobbyVars, lobby_sessions, active_connections,
                   connection_metadata, player_to_ws, next_session>>

\* ---- engine.py _game_loop: a loop task that finds _running false ends
GameLoopExit(session_id, task) ==
    /\ session_id \in DOMAIN engines
    /\ task \in engines[session_id].alive
    /\ ~engines[session_id].running
    /\ engines' = [engines EXCEPT ![session_id].alive = @ \ {task}]
    /\ UNCHANGED <<lobbyVars, game_sessions, lobby_sessions, active_connections,
                   connection_metadata, player_to_ws, ws, next_session>>

\* ---- engine.py _game_loop: a tick of a running loop moves the race
\* status along (_update_race_status, _check_finish)
GameLoopStatus(session_id) ==
    /\ session_id \in DOMAIN engines
    /\ engines[session_id].alive # {}
    /\ engines[session_id].status \in {"countdown", "racing"}
    /\ engines' = [engines EXCEPT ![session_id].status =
                       IF @ = "countdown" THEN "racing" ELSE "finished"]
    /\ UNCHANGED <<lobbyVars, game_sessions, lobby_sessions, active_connections,
                   connection_metadata, player_to_ws, ws, next_session>>

(***************************************************************************)
(* SpecLobby: the LobbyManager API under any sequence of calls.            *)
(***************************************************************************)
LobbyArgs == LobbyIds
MaxPlayersArgs == 1..MaxPlayersChoice

NextLobby ==
    \/ \E p \in Humans, n \in MaxPlayersArgs :
           create_lobby(p, n) /\ UNCHANGED <<serverVars, next_session, engineVars, realtimeVars>>
    \/ \E l \in LobbyArgs, p \in Humans :
           join_lobby(l, p) /\ UNCHANGED <<serverVars, next_session, engineVars, realtimeVars>>
    \/ \E l \in LobbyArgs, p \in PlayerIds :
           leave_lobby(l, p) /\ UNCHANGED <<serverVars, next_session, engineVars, realtimeVars>>
    \/ \E l \in LobbyArgs, b \in BotIds :
           add_bot_to_lobby(l, b) /\ UNCHANGED <<serverVars, next_session, engineVars, realtimeVars>>
    \/ \E l \in LobbyArgs, p \in Humans, n \in MaxPlayersArgs :
           update_settings(l, p, n) /\ UNCHANGED <<serverVars, next_session, engineVars, realtimeVars>>
    \/ \E l \in LobbyArgs, p \in Humans :
           start_race(l, p) /\ UNCHANGED <<serverVars, engineVars, realtimeVars>>
    \/ \E l \in LobbyArgs :
           transition_to_racing(l) /\ UNCHANGED <<serverVars, next_session, engineVars, realtimeVars>>
    \/ \E l \in LobbyArgs :
           finish_race(l) /\ UNCHANGED <<serverVars, next_session, engineVars, realtimeVars>>
    \/ \E l \in LobbyArgs, p \in Humans :
           reset_lobby(l, p) /\ UNCHANGED <<serverVars, next_session, engineVars, realtimeVars>>
    \/ \E l \in LobbyArgs, p \in Humans :
           disband_lobby(l, p) /\ UNCHANGED <<serverVars, next_session, engineVars, realtimeVars>>
    \/ \E l \in LobbyArgs :
           cleanup_stale_lobbies(l) /\ UNCHANGED <<serverVars, next_session, engineVars, realtimeVars>>

(***************************************************************************)
(* SpecServer: clients, the session registry and the lobbies.              *)
(***************************************************************************)
NextServer ==
    \/ \E p \in Humans, n \in MaxPlayersArgs :
           RestCreateLobby(p, n) /\ UNCHANGED <<engineVars, realtimeVars>>
    \/ \E l \in LobbyArgs, p \in Humans, n \in MaxPlayersArgs :
           RestUpdateSettings(l, p, n) /\ UNCHANGED <<engineVars, realtimeVars>>
    \/ \E l \in LobbyArgs, p \in Humans :
           RestDisbandLobby(l, p) /\ UNCHANGED <<engineVars, realtimeVars>>
    \/ \E w \in Conns, l \in LobbyArgs, p \in Humans :
           WsConnectLobby(w, l, p) /\ UNCHANGED <<engineVars, realtimeVars>>
    \/ \E w \in Conns, s \in {0} \cup SessionIds, p \in Humans :
           WsConnectDirect(w, s, p) /\ UNCHANGED <<engineVars, realtimeVars>>
    \/ \E w \in Conns : WsAccepted(w) /\ UNCHANGED <<engineVars, realtimeVars>>
    \/ \E w \in Conns : WsLeaveLobby(w) /\ UNCHANGED <<engineVars, realtimeVars>>
    \/ \E w \in Conns : WsLobbyStartRace(w) /\ UNCHANGED <<engineVars, realtimeVars>>
    \/ \E w \in Conns, b \in BotIds : WsAddBotToLobby(w, b) /\ UNCHANGED <<engineVars, realtimeVars>>
    \/ \E w \in Conns : WsDirectStartRace(w) /\ UNCHANGED <<engineVars, realtimeVars>>
    \/ \E w \in Conns, b \in BotIds, loads \in BOOLEAN :
           WsSubmitBot(w, b, loads) /\ UNCHANGED <<engineVars, realtimeVars>>
    \/ \E w \in Conns : WsDisconnect(w) /\ UNCHANGED <<engineVars, realtimeVars>>
    \/ \E w \in Conns : WsStopped(w) /\ UNCHANGED <<engineVars, realtimeVars>>
    \/ \E s \in SessionIds, t \in 1..MaxConns :
           GameLoopExit(s, t) /\ UNCHANGED <<engineVars, realtimeVars>>
    \/ \E s \in SessionIds : GameLoopStatus(s) /\ UNCHANGED <<engineVars, realtimeVars>>


(***************************************************************************)
(* GameEngine (core/engine.py) on a straight track.                        *)
(*                                                                         *)
(* The track handed to the constructor is a straight line along +x that    *)
(* starts at x = 0 with start_heading 0; checkpoint k (0-based) is a line  *)
(* perpendicular to the track at x = (k + 1) * CheckpointSpacing.  The     *)
(* track has no obstacles and no containment, so the obstacle and boundary *)
(* handlers return at their first test.  Cars keep the start heading; a    *)
(* car is its coordinate x and its velocity v along the track, in length   *)
(* units per tick.  time.time() is the variable clock, which advances by   *)
(* one per tick; None of an Optional[float] or Optional[int] is 0, which   *)
(* no clock reading and no race position equals.                           *)
(***************************************************************************)
Racers == {"a", "bot-a-1", "bot-b-1"}
RacerBots == {"bot-a-1", "bot-b-1"}
RacerHumans == Racers \ RacerBots

NumCheckpoints == 2
CheckpointSpacing == 4
CheckpointHalfWidth == 1
CountdownTicks == 1
GraceTicks == 2
MaxTick == 8
MaxRacers == 2
AccelPerTick == 1
BrakePerTick == 2
MaxSpeedPerTick == 2
CarRadius == 1
CollisionMinSpeed == 0
\* ticks a nitro lasts, and the speed limit per tick while it is active
\* (NITRO_SPEED_MULTIPLIER times MaxSpeedPerTick)
NitroDurationTicks == 1
NitroMaxSpeedPerTick == 3
\* fog of war and rays, in track units: a ray reaches less far than the
\* visibility radius, as 200 + 10 against 300 in the game
VisibilityRadius == 3
RayMaxRange == 2
RayCarRadius == 1

TICK_RATE == 60
BOT_TICK_RATE == 20
DRAG_PERCENT == 2
ELASTICITY_PERCENT == 70
POINTS_BY_POSITION == <<25, 18, 15, 12, 10, 8, 6, 4>>
PROGRESS_PER_CHECKPOINT == 1000
DEFAULT_NITRO_CHARGES == 2
ROUGH_CHECKPOINT_DISTANCE == 100

None == 0

Abs(n) == IF n < 0 THEN -n ELSE n
Sign(n) == IF n < 0 THEN -1 ELSE IF n > 0 THEN 1 ELSE 0
Range(s) == {s[i] : i \in 1..Len(s)}
IndexOf(s, e) == CHOOSE i \in 1..Len(s) : s[i] = e

\* list.sort(key=...) is stable: equal keys keep their order.
RECURSIVE InsertAscending(_, _, _)
InsertAscending(s, e, key) ==
    IF s = << >> THEN <<e>>
    ELSE IF key[Head(s)] <= key[e] THEN <<Head(s)>> \o InsertAscending(Tail(s), e, key)
    ELSE <<e>> \o s

RECURSIVE SortAscending(_, _)
SortAscending(s, key) ==
    IF s = << >> THEN << >>
    ELSE InsertAscending(SortAscending(SubSeq(s, 1, Len(s) - 1), key), s[Len(s)], key)

\* list.sort(key=..., reverse=True) is stable as well.
RECURSIVE InsertDescending(_, _, _)
InsertDescending(s, e, key) ==
    IF s = << >> THEN <<e>>
    ELSE IF key[Head(s)] >= key[e] THEN <<Head(s)>> \o InsertDescending(Tail(s), e, key)
    ELSE <<e>> \o s

RECURSIVE SortDescending(_, _)
SortDescending(s, key) ==
    IF s = << >> THEN << >>
    ELSE InsertDescending(SortDescending(SubSeq(s, 1, Len(s) - 1), key), s[Len(s)], key)

PlayerInput(accelerate, brake, turn_left, turn_right, nitro) ==
    [accelerate |-> accelerate, brake |-> brake, turn_left |-> turn_left,
     turn_right |-> turn_right, nitro |-> nitro]

DefaultInput == PlayerInput(FALSE, FALSE, FALSE, FALSE, FALSE)
AccelerateInput == PlayerInput(TRUE, FALSE, FALSE, FALSE, FALSE)
BrakeInput == PlayerInput(FALSE, TRUE, FALSE, FALSE, FALSE)
NitroInput == PlayerInput(TRUE, FALSE, FALSE, FALSE, TRUE)
InputChoices == {DefaultInput, AccelerateInput, BrakeInput}
TurnLeftInput == PlayerInput(TRUE, FALSE, TRUE, FALSE, FALSE)
TurnRightInput == PlayerInput(TRUE, FALSE, FALSE, TRUE, FALSE)
TurnBothInput == PlayerInput(TRUE, FALSE, TRUE, TRUE, FALSE)

CarState(x) ==
    [x |-> x, v |-> 0, nitro_charges |-> DEFAULT_NITRO_CHARGES,
     nitro_active |-> FALSE, nitro_remaining_ticks |-> 0]

PlayerState(player_id) ==
    [player_id |-> player_id, car |-> CarState(0), input |-> DefaultInput,
     current_checkpoint |-> 0, checkpoints_passed |-> {}, split_times |-> << >>,
     is_finished |-> FALSE, finish_time |-> None, position |-> None,
     points |-> 0, dnf |-> FALSE, is_bot |-> FALSE, bot_instance |-> FALSE,
     bot_error |-> FALSE, has_prev_position |-> FALSE, prev_position |-> 0]

RaceInfo ==
    [status |-> "waiting", countdown_remaining |-> 0, start_time |-> None,
     finish_time |-> None, first_finisher_time |-> None,
     grace_period_remaining |-> 0]

GameState ==
    [tick |-> tick, race_info |-> race_info, players |-> players,
     order |-> order, clock |-> clock, hooks |-> hooks]

NoHooks(G) == [G EXCEPT !.hooks = [p \in DOMAIN G.players |-> {}]]

Invoke(G, player_id, hook) ==
    [G EXCEPT !.hooks[player_id] = @ \cup {hook}]

\* bot_manager.py: the bot tick runs every third physics tick.
bot_tick_interval == TICK_RATE \div BOT_TICK_RATE
should_run_bot_tick(current_tick) == current_tick % bot_tick_interval = 0

\* Outcome of BotManager.get_bot_actions: BotError for a sandbox timeout or
\* security violation, otherwise the bot's actions (default actions when
\* on_tick raised anything else or returned something that is no BotActions).
BotResults ==
    {[error |-> TRUE, actions |-> DefaultInput]}
        \cup {[error |-> FALSE, actions |-> a] : a \in {DefaultInput, AccelerateInput}}

\* What one call of the bot's on_tick does: it returns a mapping, returns
\* something else, raises an exception of its own, calls a value of its
\* own that is None (TypeError "'NoneType' object is not callable"), runs
\* into a guard or a blocked builtin of the sandbox, or runs out of time.
OnTickOutcomes ==
    {"returns_actions", "returns_other", "raises", "calls_none",
     "security", "timeout"}

\* sandbox.py, BotSandbox.call_on_tick: the exception that leaves the
\* call ("" for none) and the returned dictionary
call_on_tick(outcome, actions) ==
    IF outcome = "timeout" THEN [raised |-> "SandboxTimeoutError", result |-> DefaultInput]
    ELSE IF outcome \in {"security", "calls_none"}
    THEN [raised |-> "SandboxSecurityError", result |-> DefaultInput]
    ELSE IF outcome = "returns_actions" THEN [raised |-> "", result |-> actions]
    ELSE [raised |-> "", result |-> DefaultInput]

\* bot_manager.py, BotManager.get_bot_actions: BotError (error = TRUE) for
\* the two sandbox errors, otherwise BotActions.from_dict of the result
get_bot_actions(outcome, actions) ==
    LET r == call_on_tick(outcome, actions) IN
    IF r.raised \in {"SandboxTimeoutError", "SandboxSecurityError"}
    THEN [error |-> TRUE, actions |-> DefaultInput]
    ELSE [error |-> FALSE, actions |-> r.result]

add_player(G, player_id) ==
    NoHooks([G EXCEPT
        !.players = With(G.players, player_id, PlayerState(player_id)),
        !.order = IF player_id \in DOMAIN G.players THEN @ ELSE Append(@, player_id)])

remove_player(G, player_id) ==
    IF player_id \in DOMAIN G.players
    THEN NoHooks([G EXCEPT
            !.players = Without(G.players, player_id),
            !.order = SelectSeq(@, LAMBDA q : q # player_id)])
    ELSE NoHooks(G)

\* loads = FALSE: BotManager.load_bot raised BotError; the player added by
\* add_player stays, flagged as a failed bot, and the error is re-raised.
add_bot_player(G, player_id, loads) ==
    LET G1 == add_player(G, player_id) IN
    IF loads
    THEN [G1 EXCEPT !.players[player_id].is_bot = TRUE,
                    !.players[player_id].bot_instance = TRUE]
    ELSE [G1 EXCEPT !.players[player_id].is_bot = TRUE,
                    !.players[player_id].bot_error = TRUE,
                    !.players[player_id].dnf = TRUE]

update_player_input(G, player_id, input_data) ==
    IF player_id \in DOMAIN G.players
    THEN NoHooks([G EXCEPT !.players[player_id].input = input_data])
    ELSE NoHooks(G)

\* the nitro charges of the race before are kept
reset_player_keep_nitro(player) ==
    [player EXCEPT
        !.car = [CarState(0) EXCEPT !.nitro_charges = player.car.nitro_charges],
        !.current_checkpoint = 0, !.checkpoints_passed = {},
        !.split_times = << >>, !.is_finished = FALSE,
        !.finish_time = None, !.position = None, !.points = 0,
        !.dnf = FALSE]

\* start_race: the body of the loop over the players
reset_player(player) ==
    [player EXCEPT
        !.car = CarState(0),
        !.current_checkpoint = 0, !.checkpoints_passed = {},
        !.split_times = << >>, !.is_finished = FALSE,
        !.finish_time = None, !.position = None, !.points = 0,
        !.dnf = FALSE]

engine_start_race(G) ==
    NoHooks([G EXCEPT
        !.race_info = [status |-> "countdown", countdown_remaining |-> CountdownTicks,
                       start_time |-> None, finish_time |-> None,
                       first_finisher_time |-> None, grace_period_remaining |-> 0],
        !.players = [p \in DOMAIN G.players |-> reset_player(G.players[p])]])

\* core/physics.py, along the track axis and per tick.
\* The speed limit while a nitro is active follows step 1 of the
\* specification of the physics (engine.py:402 passes use_nitro on; the
\* physics.py at hand does not take it).
apply_acceleration(car) ==
    LET new_velocity == car.v + AccelPerTick
        max_speed == IF car.nitro_active THEN NitroMaxSpeedPerTick
                     ELSE MaxSpeedPerTick
    IN [car EXCEPT !.v = IF Abs(new_velocity) > max_speed
                         THEN Sign(new_velocity) * max_speed
                         ELSE new_velocity]

apply_braking(car) ==
    IF car.v = 0 THEN car
    ELSE LET new_velocity == car.v - Sign(car.v) * BrakePerTick IN
         [car EXCEPT !.v = IF car.v * new_velocity < 0 THEN 0 ELSE new_velocity]

\* drag_magnitude = DRAG_COEFFICIENT * speed * dt, with dt = 1 / TICK_RATE.
apply_drag(car) ==
    LET speed == Abs(car.v) IN
    IF speed = 0 THEN [car EXCEPT !.v = 0]
    ELSE LET drag_magnitude == (DRAG_PERCENT * speed) \div (100 * TICK_RATE)
             new_velocity == car.v - Sign(car.v) * drag_magnitude
         IN [car EXCEPT !.v = IF car.v * new_velocity < 0 THEN 0 ELSE new_velocity]

update_position(car) == [car EXCEPT !.x = car.x + car.v]

\* The nitro step of simulate_step, after the specification of the
\* physics (step 6; the physics.py at hand has no nitro): a request with a
\* charge left and no nitro active takes one charge and activates it for
\* the duration; an active nitro counts down and ends at zero.
update_nitro(car, use_nitro) ==
    IF use_nitro /\ car.nitro_charges > 0 /\ ~car.nitro_active
    THEN [car EXCEPT !.nitro_charges = @ - 1,
                     !.nitro_active = TRUE,
                     !.nitro_remaining_ticks = NitroDurationTicks]
    ELSE IF car.nitro_active
    THEN [car EXCEPT !.nitro_remaining_ticks = @ - 1,
                     !.nitro_active = car.nitro_remaining_ticks - 1 > 0]
    ELSE car

simulate_step(car, accelerating, braking, use_nitro) ==
    LET s1 == IF accelerating THEN apply_acceleration(car) ELSE car
        s2 == IF braking THEN apply_braking(s1) ELSE s1
    IN update_position(update_nitro(apply_drag(s2), use_nitro))

\* engine.py, _update_player_physics: the turn direction handed to the
\* physics step. The car of this model stays on the track axis, so the
\* direction is computed and not used by simulate_step.
turn_direction(input) ==
    IF input.turn_right THEN 1
    ELSE IF input.turn_left THEN 0 - 1
    ELSE 0

_update_player_physics(G, p) ==
    [G EXCEPT !.players[p].car =
        simulate_step(@, G.players[p].input.accelerate, G.players[p].input.brake,
                      G.players[p].input.nitro)]

CheckpointX(index) == (index + 1) * CheckpointSpacing

ccw(ax, ay, bx, by, cx, cy) == (cy - ay) * (bx - ax) > (by - ay) * (cx - ax)

_line_segments_intersect(p1_x, p1_y, p2_x, p2_y, p3_x, p3_y, p4_x, p4_y) ==
    /\ ccw(p1_x, p1_y, p3_x, p3_y, p4_x, p4_y) # ccw(p2_x, p2_y, p3_x, p3_y, p4_x, p4_y)
    /\ ccw(p1_x, p1_y, p2_x, p2_y, p3_x, p3_y) # ccw(p1_x, p1_y, p2_x, p2_y, p4_x, p4_y)

\* a crossing counts in either direction
either_crossing(dot_product) == TRUE

\* _check_checkpoint_progress: the movement has a positive component
\* along the direction of the checkpoint (its angle is the track axis)
forward_crossing(dot_product) == dot_product > 0

_check_checkpoint_progress(G, p) ==
    LET player == G.players[p] IN
    IF player.current_checkpoint >= NumCheckpoints THEN G
    ELSE IF ~player.has_prev_position
    THEN [G EXCEPT !.players[p].has_prev_position = TRUE,
                   !.players[p].prev_position = player.car.x]
    ELSE
        LET cp_x == CheckpointX(player.current_checkpoint)
            prev_x == player.prev_position
            curr_x == player.car.x
            crossed == _line_segments_intersect(prev_x, 0, curr_x, 0,
                           cp_x, CheckpointHalfWidth, cp_x, -CheckpointHalfWidth)
            dot_product == curr_x - prev_x
            checkpoint_index == player.current_checkpoint
            G1 == IF crossed /\ forward_crossing(dot_product)
                  THEN LET G2 == [G EXCEPT
                               !.players[p].checkpoints_passed = @ \cup {checkpoint_index},
                               !.players[p].current_checkpoint = @ + 1,
                               !.players[p].split_times =
                                   IF G.race_info.start_time # None
                                   THEN Append(@, G.clock - G.race_info.start_time)
                                   ELSE @]
                       IN IF player.is_bot /\ player.bot_instance
                          THEN Invoke(G2, p, "on_checkpoint")
                          ELSE G2
                  ELSE G
        IN [G1 EXCEPT !.players[p].prev_position = curr_x]

FinishedPlayers(G) ==
    SortAscending(
        SelectSeq(G.order, LAMBDA q : G.players[q].is_finished /\ G.players[q].finish_time # None),
        [q \in DOMAIN G.players |-> G.players[q].finish_time])

\* the points table is read one entry too far
award_points_shifted(position) ==
    IF position + 1 <= Len(POINTS_BY_POSITION)
    THEN POINTS_BY_POSITION[position + 1] ELSE 0

\* _finalize_race: points_table[position - 1] with its bounds check
\* (sequences are indexed from 1)
award_points(position) ==
    IF position <= Len(POINTS_BY_POSITION)
    THEN POINTS_BY_POSITION[position] ELSE 0

_finalize_race(G) ==
    LET finished_players == FinishedPlayers(G)
        ranked == [q \in DOMAIN G.players |->
            IF q \in Range(finished_players)
            THEN LET position == IndexOf(finished_players, q) IN
                 [G.players[q] EXCEPT
                    !.position = position,
                    !.points = award_points(position)]
            ELSE G.players[q]]
    IN [G EXCEPT !.players = [q \in DOMAIN ranked |->
            IF ranked[q].dnf
            THEN [ranked[q] EXCEPT !.position = None, !.points = 0]
            ELSE ranked[q]]]

_check_finish(G, p) ==
    LET player == G.players[p] IN
    IF player.current_checkpoint >= NumCheckpoints /\ ~player.is_finished
    THEN
        LET G1 == [G EXCEPT !.players[p].is_finished = TRUE,
                            !.players[p].finish_time = G.clock]
            G2 == IF player.is_bot /\ player.bot_instance
                  THEN Invoke(G1, p, "on_finish") ELSE G1
            G3 == IF G2.race_info.first_finisher_time = None
                  THEN [G2 EXCEPT !.race_info.first_finisher_time = G.clock,
                                  !.race_info.grace_period_remaining = GraceTicks]
                  ELSE G2
            all_finished == \A q \in DOMAIN G3.players : G3.players[q].is_finished
        IN IF all_finished
           THEN [_finalize_race(G3) EXCEPT !.race_info.status = "finished",
                                           !.race_info.finish_time = G.clock]
           ELSE G3
    ELSE G

\* the countdown branch of _update_race_status
countdown_started_without_time(G) ==
    LET remaining == G.race_info.countdown_remaining - 1 IN
    IF remaining <= 0
    THEN [G EXCEPT !.race_info.status = "racing",
                   !.race_info.countdown_remaining = 0]
    ELSE [G EXCEPT !.race_info.countdown_remaining = remaining]

countdown_tick(G) ==
    LET remaining == G.race_info.countdown_remaining - 1 IN
    IF remaining <= 0
    THEN [G EXCEPT !.race_info.status = "racing",
                   !.race_info.start_time = G.clock,
                   !.race_info.countdown_remaining = 0]
    ELSE [G EXCEPT !.race_info.countdown_remaining = remaining]

\* the grace-period branch of _update_race_status
grace_never_expires(G) == G

grace_tick(G) ==
    LET remaining == G.race_info.grace_period_remaining - 1 IN
    IF remaining <= 0
    THEN LET marked == [G EXCEPT
                 !.race_info.grace_period_remaining = remaining,
                 !.players = [q \in DOMAIN G.players |->
                     IF ~G.players[q].is_finished
                     THEN [G.players[q] EXCEPT !.dnf = TRUE]
                     ELSE G.players[q]]]
         IN [_finalize_race(marked) EXCEPT !.race_info.status = "finished"]
    ELSE [G EXCEPT !.race_info.grace_period_remaining = remaining]

_update_race_status(G) ==
    IF G.race_info.status = "countdown" THEN countdown_tick(G)
    ELSE IF G.race_info.status = "racing"
    THEN IF G.race_info.first_finisher_time # None THEN grace_tick(G) ELSE G
    ELSE G

\* The except branch of _update_bot_inputs: the failing bot is disqualified.
bot_failed_disqualifies_all(G, p) ==
    [G EXCEPT !.players = [q \in DOMAIN G.players |->
        IF G.players[q].is_bot
        THEN [G.players[q] EXCEPT !.bot_error = TRUE, !.dnf = TRUE,
                                  !.input = DefaultInput]
        ELSE G.players[q]]]

bot_failed(G, p) ==
    [G EXCEPT !.players[p].bot_error = TRUE,
              !.players[p].dnf = TRUE,
              !.players[p].input = DefaultInput]

RECURSIVE BotInputsLoop(_, _, _)
BotInputsLoop(G, ids, res) ==
    IF ids = << >> THEN G
    ELSE LET p == Head(ids)
             player == G.players[p]
         IN IF ~player.is_bot \/ player.bot_error \/ player.is_finished \/ player.dnf
            THEN BotInputsLoop(G, Tail(ids), res)
            ELSE LET G1 == Invoke(G, p, "on_tick") IN
                 IF res[p].error
                 THEN BotInputsLoop(bot_failed(G1, p), Tail(ids), res)
                 ELSE BotInputsLoop([G1 EXCEPT !.players[p].input = res[p].actions],
                                    Tail(ids), res)

_update_bot_inputs(G, res) == BotInputsLoop(G, G.order, res)

RECURSIVE PhysicsLoop(_, _)
PhysicsLoop(G, ids) ==
    IF ids = << >> THEN G
    ELSE LET p == Head(ids) IN
         PhysicsLoop(
            IF ~G.players[p].is_finished
            THEN _check_finish(_check_checkpoint_progress(_update_player_physics(G, p), p), p)
            ELSE G,
            Tail(ids))

\* _handle_car_collisions: the pairs it passes over
skip_pair_dnf_only(a, b) == a.dnf \/ b.dnf

skip_pair(a, b) == a.is_finished \/ b.is_finished \/ a.dnf \/ b.dnf

\* One pair of _handle_car_collisions; both cars weigh the same.
collide(G, p1, p2) ==
    LET a == G.players[p1]
        b == G.players[p2]
        dx == b.car.x - a.car.x
        distance == Abs(dx)
        collision_distance == 2 * CarRadius
    IN IF skip_pair(a, b) THEN G
       ELSE IF distance < collision_distance
       THEN LET normal == IF distance > 0 THEN Sign(dx) ELSE 1
                penetration == collision_distance - distance
                velocity_along_normal == (a.car.v - b.car.v) * normal
                \* |impulse| / mass = (1 + e) * v_rel / 2
                delta_v == IF velocity_along_normal > CollisionMinSpeed
                           THEN ((100 + ELASTICITY_PERCENT) * velocity_along_normal) \div 200
                           ELSE 0
                p1_push == penetration \div 2
                p2_push == penetration - p1_push
            IN [G EXCEPT !.players[p1].car.x = a.car.x - normal * p1_push,
                         !.players[p1].car.v = a.car.v - normal * delta_v,
                         !.players[p2].car.x = b.car.x + normal * p2_push,
                         !.players[p2].car.v = b.car.v + normal * delta_v]
       ELSE G

RECURSIVE CollideWithRest(_, _, _)
CollideWithRest(G, p1, rest) ==
    IF rest = << >> THEN G
    ELSE CollideWithRest(collide(G, p1, Head(rest)), p1, Tail(rest))

RECURSIVE CollisionLoop(_, _)
CollisionLoop(G, ids) ==
    IF ids = << >> THEN G
    ELSE CollisionLoop(CollideWithRest(G, Head(ids), Tail(ids)), Tail(ids))

_handle_car_collisions(G) == CollisionLoop(G, G.order)

_calculate_player_progress(G, p) ==
    LET player == G.players[p]
        checkpoint_progress == player.current_checkpoint * PROGRESS_PER_CHECKPOINT
    IN IF player.current_checkpoint < NumCheckpoints
       THEN checkpoint_progress - Abs(player.car.x - CheckpointX(player.current_checkpoint))
       ELSE checkpoint_progress

dnf_keeps_position(G) == G

\* the last loop of _update_race_positions: DNF players have no position
dnf_without_position(G) ==
    [G EXCEPT !.players = [q \in DOMAIN G.players |->
        IF G.players[q].dnf THEN [G.players[q] EXCEPT !.position = None]
        ELSE G.players[q]]]

_update_race_positions(G) ==
    LET finished_players == FinishedPlayers(G)
        racing_players == SortDescending(
            SelectSeq(G.order, LAMBDA q : ~G.players[q].is_finished /\ ~G.players[q].dnf),
            [q \in DOMAIN G.players |-> _calculate_player_progress(G, q)])
        ranking == finished_players \o racing_players
        positioned == [G EXCEPT !.players = [q \in DOMAIN G.players |->
            IF q \in Range(ranking)
            THEN [G.players[q] EXCEPT !.position = IndexOf(ranking, q)]
            ELSE G.players[q]]]
    IN dnf_without_position(positioned)

_tick(G, res) ==
    LET G0 == NoHooks([G EXCEPT !.tick = @ + 1, !.clock = @ + 1])
        G1 == _update_race_status(G0)
    IN IF G1.race_info.status = "racing"
       THEN LET G2 == IF should_run_bot_tick(G1.tick)
                      THEN _update_bot_inputs(G1, res) ELSE G1
            IN _update_race_positions(_handle_car_collisions(PhysicsLoop(G2, G2.order)))
       ELSE G1

\* raycast.py, RaycastSystem.__init__: the range of a ray
max_range_beyond_visibility == VisibilityRadius + RayMaxRange + RayCarRadius

max_range == RayMaxRange

\* the rays whose geometry stays in the integers on a track along the x
\* axis with heading 0: ray[0] forward, ray[3] 90 degrees right, ray[6]
\* 90 degrees left, as unit vectors
RAY_ANGLES == << <<1, 0>>, <<0, -1>>, <<0, 1>> >>

Isqrt(n) == CHOOSE k \in 0..n : k * k <= n /\ n < (k + 1) * (k + 1)

NoHit == [distance |-> max_range, hit_type |-> "none"]

\* raycast.py, RaycastSystem._raycast_car: ray against the circle of
\* another car; hit_type "none" stands for the None it returns.
_raycast_car(origin, direction, car) ==
    LET to_car == car.x - origin
        proj_length == to_car * direction[1]
        closest_x == origin + direction[1] * proj_length
        closest_y == direction[2] * proj_length
        dist_to_ray_squared ==
            (car.x - closest_x) * (car.x - closest_x) + closest_y * closest_y
        chord_half_length == Isqrt(RayCarRadius * RayCarRadius - dist_to_ray_squared)
        hit_distance == proj_length - chord_half_length
    IN IF proj_length < 0 THEN NoHit
       ELSE IF dist_to_ray_squared > RayCarRadius * RayCarRadius THEN NoHit
       ELSE IF hit_distance < 0 \/ hit_distance > max_range THEN NoHit
       ELSE [distance |-> hit_distance, hit_type |-> "car"]

\* raycast.py, RaycastSystem._cast_ray on a track without containment
\* and obstacles: the closest car hit, cars on the position of the
\* source car skipped.
RECURSIVE CarHitsLoop(_, _, _, _, _)
CarHitsLoop(closest_hit, origin, direction, other_cars, source_car) ==
    IF other_cars = << >> THEN closest_hit
    ELSE LET other_car == Head(other_cars)
             car_hit == _raycast_car(origin, direction, other_car)
         IN IF other_car.x = source_car.x
            THEN CarHitsLoop(closest_hit, origin, direction, Tail(other_cars), source_car)
            ELSE IF car_hit.hit_type # "none" /\ car_hit.distance < closest_hit.distance
            THEN CarHitsLoop(car_hit, origin, direction, Tail(other_cars), source_car)
            ELSE CarHitsLoop(closest_hit, origin, direction, Tail(other_cars), source_car)

_cast_ray(origin, direction, other_cars, source_car) ==
    CarHitsLoop(NoHit, origin, direction, other_cars, source_car)

cast_all_rays(car, other_cars) ==
    [i \in 1..Len(RAY_ANGLES) |-> _cast_ray(car.x, RAY_ANGLES[i], other_cars, car)]

\* bot_manager.py, BotManager._get_visible_opponents: the test that lets
\* an opponent into the list
visible_strictly_inside(distance) == distance < VisibilityRadius

visible(distance) == distance <= VisibilityRadius

\* relative_angle of an opponent on the track axis seen with heading 0:
\* atan2(0, dx) is 0 for dx >= 0 and pi for dx < 0, and the
\* normalisation (angle + pi) % (2 pi) - pi sends pi to -pi.
relative_angle(dx) == IF dx < 0 THEN "-pi" ELSE "0"

RECURSIVE OpponentsLoop(_, _, _)
OpponentsLoop(G, player_id, ids) ==
    IF ids = << >> THEN << >>
    ELSE LET pid == Head(ids)
             opponent == G.players[pid]
             dx == opponent.car.x - G.players[player_id].car.x
             distance == Abs(dx)
             rest == OpponentsLoop(G, player_id, Tail(ids))
         IN IF pid = player_id THEN rest
            ELSE IF visible(distance)
            THEN << [position |-> opponent.car.x, velocity |-> opponent.car.v,
                     distance |-> distance,
                     relative_angle |-> relative_angle(dx)] >> \o rest
            ELSE rest

_get_visible_opponents(G, player_id) == OpponentsLoop(G, player_id, G.order)

\* bot_manager.py, BotManager._calculate_distance_to_finish
_calculate_distance_to_finish(player) ==
    IF player.current_checkpoint >= NumCheckpoints THEN 0
    ELSE Abs(CheckpointX(player.current_checkpoint) - player.car.x)
         + (NumCheckpoints - (player.current_checkpoint + 1)) * ROUGH_CHECKPOINT_DISTANCE

RECURSIVE OtherCars(_, _, _)
OtherCars(G, player_id, ids) ==
    IF ids = << >> THEN << >>
    ELSE IF Head(ids) = player_id THEN OtherCars(G, player_id, Tail(ids))
    ELSE << G.players[Head(ids)].car >> \o OtherCars(G, player_id, Tail(ids))

\* bot_manager.py, BotManager._create_bot_game_state: what the bot of
\* player_id is given to look at
_create_bot_game_state(G, player_id) ==
    LET player == G.players[player_id]
        other_cars == OtherCars(G, player_id, G.order)
    IN [car |-> [position |-> player.car.x,
                 speed |-> Abs(player.car.v),
                 velocity |-> player.car.v,
                 nitro_charges |-> player.car.nitro_charges,
                 nitro_active |-> player.car.nitro_active],
        track |-> [checkpoints |-> [i \in 1..NumCheckpoints |-> CheckpointX(i - 1)],
                   next_checkpoint |-> player.current_checkpoint],
        rays |-> cast_all_rays(player.car, other_cars),
        opponents |-> _get_visible_opponents(G, player_id),
        race |-> [current_checkpoint |-> player.current_checkpoint,
                  total_checkpoints |-> NumCheckpoints,
                  position |-> IF player.position # None THEN player.position
                               ELSE Cardinality(DOMAIN G.players),
                  total_cars |-> Cardinality(DOMAIN G.players),
                  elapsed_time |-> IF G.race_info.start_time # None
                                   THEN G.clock - G.race_info.start_time ELSE 0,
                  distance_to_finish |-> _calculate_distance_to_finish(player)]]

\* The bots get_bot_actions may be asked for in the tick that follows.
BotsToAsk(G) ==
    IF should_run_bot_tick(G.tick + 1)
    THEN {p \in DOMAIN G.players : G.players[p].is_bot /\ ~G.players[p].bot_error}
    ELSE {}

SetGame(G) ==
    /\ tick' = G.tick
    /\ race_info' = G.race_info
    /\ players' = G.players
    /\ order' = G.order
    /\ clock' = G.clock
    /\ hooks' = G.hooks

InitEngine ==
    /\ tick = 0
    /\ race_info = RaceInfo
    /\ players = << >>
    /\ order = << >>
    /\ clock = 1
    /\ hooks = << >>

AddPlayer(p) ==
    /\ p \notin DOMAIN players
    /\ Cardinality(DOMAIN players) < MaxRacers
    /\ SetGame(add_player(GameState, p))
    /\ UNCHANGED <<lobbyVars, serverVars, next_session, realtimeVars>>

AddBotPlayer(p, loads) ==
    /\ p \notin DOMAIN players
    /\ Cardinality(DOMAIN players) < MaxRacers
    /\ SetGame(add_bot_player(GameState, p, loads))
    /\ UNCHANGED <<lobbyVars, serverVars, next_session, realtimeVars>>

RemovePlayer(p) ==
    /\ p \in DOMAIN players
    /\ SetGame(remove_player(GameState, p))
    /\ UNCHANGED <<lobbyVars, serverVars, next_session, realtimeVars>>

UpdatePlayerInput(p, input_data) ==
    /\ p \in DOMAIN players
    /\ ~players[p].is_bot
    /\ SetGame(update_player_input(GameState, p, input_data))
    /\ UNCHANGED <<lobbyVars, serverVars, next_session, realtimeVars>>

StartRace ==
    /\ SetGame(engine_start_race(GameState))
    /\ UNCHANGED <<lobbyVars, serverVars, next_session, realtimeVars>>

Tick ==
    /\ tick < MaxTick
    /\ \E res \in [BotsToAsk(GameState) -> BotResults] : SetGame(_tick(GameState, res))
    /\ UNCHANGED <<lobbyVars, serverVars, next_session, realtimeVars>>

NextEngine ==
    \/ \E p \in RacerHumans : AddPlayer(p)
    \/ \E p \in RacerBots, loads \in BOOLEAN : AddBotPlayer(p, loads)
    \/ \E p \in Racers : RemovePlayer(p)
    \/ \E p \in RacerHumans, i \in InputChoices : UpdatePlayerInput(p, i)
    \/ StartRace
    \/ Tick

\* A starting grid of up to MaxGrid human players followed over the first
\* MaxGridTick ticks; every car is created on the track's start position.
MaxGrid == 3
MaxGridTick == 3

GridAddPlayer(p) ==
    /\ Cardinality(DOMAIN players) < MaxGrid
    /\ p \notin DOMAIN players
    /\ race_info.status = "waiting"
    /\ SetGame(add_player(GameState, p))
    /\ UNCHANGED <<lobbyVars, serverVars, next_session, realtimeVars>>

GridTick ==
    /\ tick < MaxGridTick
    /\ Tick

NextGrid ==
    \/ \E p \in Racers : GridAddPlayer(p)
    \/ \E p \in Racers, i \in {DefaultInput, AccelerateInput} : UpdatePlayerInput(p, i)
    \/ race_info.status = "waiting" /\ StartRace
    \/ GridTick

\* Races of up to two human players that are restarted at any moment; one
\* of the players drives, steers and uses nitro, the other leaves its input
\* alone.
NextRestart ==
    \/ \E p \in Humans : GridAddPlayer(p)
    \/ \E i \in {AccelerateInput, BrakeInput, NitroInput,
                 TurnLeftInput, TurnRightInput, TurnBothInput} : UpdatePlayerInput("a", i)
    \/ StartRace
    \/ Tick

(***************************************************************************)
(* app/api/routes/game.py: the tasks that serve the clients of a session   *)
(* in real time: state_broadcaster (one task per asyncio.create_task at    *)
(* game.py:630) and heartbeat_monitor (one per direct-mode connection).    *)
(* Time is counted in units of which PingInterval make one                 *)
(* WEBSOCKET_PING_INTERVAL and PongTimeout one pong_timeout; a sleeping    *)
(* task wakes when its time has come or later.  One iteration of the       *)
(* broadcaster (snapshot, then the sends in the order of the copied set)   *)
(* is one step: the frames of one connection go out in the order in which  *)
(* send_text was called.                                                   *)
(***************************************************************************)
PingInterval == 2
PongTimeout == 1
MaxTime == 6
MaxSessionTick == 2
MaxOversleep == 1
MaxRealtimeSessions == 1

\* websocket.close(code=1008, ...): 1008 is the policy-violation code
POLICY_VIOLATION == 1008

\* a websocket: not yet opened, open, or closed with a close code (0 when
\* the client went away)
Socket(state, code) == [state |-> state, code |-> code]

\* an input message as the handler parses it
InputMessage(data) == [type |-> "input", data |-> data]
NoMessage == [type |-> "none", data |-> DefaultInput]

NoHeartbeat == [pc |-> "none", session_id |-> 0, wake |-> 0]

InitRealtime ==
    /\ active_broadcasters = {}
    /\ broadcasters = << >>
    /\ heartbeats = [w \in Conns |-> NoHeartbeat]
    /\ now = 1
    /\ last_pong_time = << >>
    /\ socket = [w \in Conns |-> Socket("new", 0)]
    /\ session_tick = [s \in SessionIds |-> 0]
    /\ delivered = [w \in Conns |-> 0]
    /\ received = {}
    /\ session_input = << >>
    /\ last_message = [w \in Conns |-> NoMessage]

\* ConnectionManager.connect stamps 'last_pong_time': time.time(), and
\* disconnect deletes the metadata of the websocket
StampMetadata ==
    last_pong_time' = [w \in DOMAIN connection_metadata' |->
                          IF w \in DOMAIN last_pong_time THEN last_pong_time[w]
                          ELSE now]

update_pong_time(websocket) ==
    IF websocket \in DOMAIN last_pong_time
    THEN [last_pong_time EXCEPT ![websocket] = now]
    ELSE last_pong_time

get_last_pong_time(websocket) ==
    IF websocket \in DOMAIN last_pong_time THEN last_pong_time[websocket] ELSE 0

\* every player of an engine has an input, the default one from its
\* creation by add_player (PlayerState.input) until a message replaces it
PlayerInputs ==
    session_input' =
        [s \in DOMAIN engines' |->
            [p \in engines'[s].players |->
                IF s \in DOMAIN session_input /\ p \in DOMAIN session_input[s]
                THEN session_input[s][p] ELSE DefaultInput]]

\* a liveness check that allows two whole ping periods without a pong
pong_overdue_twice(time_since_pong) ==
    time_since_pong > PingInterval + PongTimeout + PingInterval + PongTimeout

\* heartbeat_monitor: the test of the liveness check
pong_overdue(time_since_pong) == time_since_pong > PingInterval + PongTimeout

\* heartbeat_monitor: `while session_id in _game_sessions`, then the sleep
\* of one ping interval
heartbeat_loop(session_id) ==
    IF session_id \in game_sessions
    THEN [pc |-> "ping_sleep", session_id |-> session_id,
          wake |-> now + PingInterval]
    ELSE [pc |-> "done", session_id |-> session_id, wake |-> 0]

\* game.py:629-630: a broadcaster task is created unless one has marked
\* the session as served
create_broadcaster(session_id) ==
    IF session_id \notin active_broadcasters
    THEN Append(broadcasters, [session_id |-> session_id, pc |-> "created"])
    ELSE broadcasters

\* ---- REST create_lobby, then a client connects in lobby mode: no task
RealtimeCreateLobby(host_player_id, max_players) ==
    /\ RestCreateLobby(host_player_id, max_players)
    /\ UNCHANGED <<engineVars, realtimeVars>>

RealtimeConnectLobby(w, lobby_id, player_id) ==
    /\ WsConnectLobby(w, lobby_id, player_id)
    /\ StampMetadata
    /\ socket' = [socket EXCEPT ![w] = Socket("open", 0)]
    /\ UNCHANGED <<engineVars, active_broadcasters, broadcasters, heartbeats,
                   now, session_tick, delivered, received, session_input,
                   last_message>>

\* ---- a client connects in direct mode
RealtimeConnectDirect(w, session_id, player_id) ==
    /\ WsConnectDirect(w, session_id, player_id)
    /\ socket' = [socket EXCEPT ![w] = Socket("open", 0)]
    /\ PlayerInputs
    /\ UNCHANGED <<engineVars, active_broadcasters, broadcasters, heartbeats,
                   now, last_pong_time, session_tick, delivered, received,
                   last_message>>

\* the accept has completed: connect, start_loop, the two create_task
\* calls, the connected message, add_player.  The heartbeat task runs up
\* to its first sleep before anything else can remove the session.
RealtimeAccepted(w) ==
    /\ WsAccepted(w)
    /\ StampMetadata
    /\ broadcasters' = create_broadcaster(ws[w].session_id)
    /\ heartbeats' = [heartbeats EXCEPT ![w] = heartbeat_loop(ws[w].session_id)]
    /\ PlayerInputs
    /\ UNCHANGED <<engineVars, active_broadcasters, now, socket, session_tick,
                   delivered, received, last_message>>

\* ---- message start_race in direct mode
RealtimeStartRace(w) ==
    /\ WsDirectStartRace(w)
    /\ UNCHANGED <<engineVars, realtimeVars>>

\* ---- message pong
RealtimePong(w) ==
    /\ ws[w].pc = "loop"
    /\ socket[w].state = "open"
    /\ last_pong_time' = update_pong_time(w)
    /\ UNCHANGED <<lobbyVars, serverVars, next_session, engineVars,
                   active_broadcasters, broadcasters, heartbeats, now, socket,
                   session_tick, delivered, received, session_input,
                   last_message>>

\* ---- the client goes away, or the handler's receive finds the socket
\* closed by the heartbeat monitor: the except block
RealtimeDisconnect(w) ==
    /\ WsDisconnect(w)
    /\ StampMetadata
    /\ socket' = [socket EXCEPT ![w] =
                     IF @.state = "open" THEN Socket("closed", 0) ELSE @]
    /\ PlayerInputs
    /\ UNCHANGED <<engineVars, active_broadcasters, broadcasters, heartbeats,
                   now, session_tick, delivered, received,
                   last_message>>

RealtimeStopped(w) ==
    /\ WsStopped(w)
    /\ UNCHANGED <<engineVars, realtimeVars>>

RealtimeLoopExit(session_id, task) ==
    /\ GameLoopExit(session_id, task)
    /\ UNCHANGED <<engineVars, realtimeVars>>

\* ---- engine.py _game_loop: one _tick of a running loop; moves: whether
\* this tick moves the race status along
GameLoopTick(session_id, moves) ==
    /\ session_id \in DOMAIN engines
    /\ engines[session_id].running
    /\ engines[session_id].alive # {}
    /\ session_tick[session_id] < MaxSessionTick
    /\ session_tick' = [session_tick EXCEPT ![session_id] = @ + 1]
    /\ engines' = [engines EXCEPT ![session_id].status =
                       IF ~moves THEN @
                       ELSE IF @ = "countdown" THEN "racing"
                       ELSE IF @ = "racing" THEN "finished"
                       ELSE @]
    /\ UNCHANGED <<lobbyVars, game_sessions, lobby_sessions, active_connections,
                   connection_metadata, player_to_ws, ws, next_session,
                   engineVars, active_broadcasters, broadcasters, heartbeats,
                   now, last_pong_time, socket, delivered, received,
                   session_input, last_message>>

\* ---- time passes, while a heartbeat monitor sleeps and none has
\* overslept by more than MaxOversleep
Advance ==
    /\ now < MaxTime
    /\ \E w \in Conns : heartbeats[w].pc \in {"ping_sleep", "pong_sleep"}
    /\ \A w \in Conns : heartbeats[w].pc \in {"ping_sleep", "pong_sleep"} =>
                           now < heartbeats[w].wake + MaxOversleep
    /\ now' = now + 1
    /\ UNCHANGED <<lobbyVars, serverVars, next_session, engineVars,
                   active_broadcasters, broadcasters, heartbeats,
                   last_pong_time, socket, session_tick, delivered, received,
                   session_input, last_message>>

\* a snapshot whose tick number counts down
countdown_snapshot(session_id) ==
    [tick |-> MaxSessionTick - session_tick[session_id]]

\* GameEngine.get_state_snapshot, of which the model keeps the tick
get_state_snapshot(session_id) == [tick |-> session_tick[session_id]]

\* ConnectionManager.broadcast: `for connection in disconnected:
\* self.disconnect(connection, session_id)`
RECURSIVE DisconnectAll(_, _, _)
DisconnectAll(CM, disconnected, key) ==
    IF disconnected = {} THEN CM
    ELSE LET connection == CHOOSE c \in disconnected : TRUE
         IN DisconnectAll(disconnect(CM, connection, key),
                          disconnected \ {connection}, key)

\* the broadcast stops at the first connection whose send fails
broadcast_until_failure(CM, key, failing) ==
    [CM |-> DisconnectAll(CM, failing, key),
     sent |-> IF failing = {} THEN CM.active_connections[key] ELSE {}]

\* ConnectionManager.broadcast for a registered key; failing: the
\* connections whose send_text raises.  The result is the manager and the
\* connections the message was sent to.
broadcast(CM, key, failing) ==
    [CM |-> DisconnectAll(CM, failing, key),
     sent |-> CM.active_connections[key] \ failing]

\* state_broadcaster: finally: _active_broadcasters.discard(session_id)
broadcaster_finally(session_id, served) == served \ {session_id}

\* ---- state_broadcaster: task b runs from its creation, or from its
\* sleep, up to its next sleep or to its end
Broadcaster(b, failing) ==
    /\ b \in DOMAIN broadcasters
    /\ broadcasters[b].pc \in {"created", "sleeping"}
    /\ LET session_id == broadcasters[b].session_id
           key == SessionKey(session_id)
           served == IF broadcasters[b].pc = "created"
                     THEN active_broadcasters \cup {session_id}
                     ELSE active_broadcasters
       IN IF session_id \notin game_sessions
          THEN /\ failing = {}
               /\ active_broadcasters' = broadcaster_finally(session_id, served)
               /\ broadcasters' = [broadcasters EXCEPT ![b].pc = "done"]
               /\ UNCHANGED <<active_connections, connection_metadata,
                              player_to_ws, last_pong_time, delivered, received>>
          ELSE /\ active_broadcasters' = served
               /\ broadcasters' = [broadcasters EXCEPT ![b].pc = "sleeping"]
               /\ IF key \in DOMAIN active_connections
                  THEN LET r == broadcast(CMgr, key, failing) IN
                       /\ failing \subseteq active_connections[key]
                       /\ \A w \in active_connections[key] :
                              socket[w].state # "open" => w \in failing
                       /\ ApplyCM(r.CM)
                       /\ StampMetadata
                       /\ delivered' = [w \in Conns |->
                              IF w \in r.sent
                              THEN get_state_snapshot(session_id).tick
                              ELSE delivered[w]]
                       /\ received' = r.sent
                  ELSE /\ failing = {}
                       /\ UNCHANGED <<active_connections, connection_metadata,
                                      player_to_ws, last_pong_time, delivered,
                                      received>>
    /\ UNCHANGED <<lobbyVars, game_sessions, engines, lobby_sessions, ws,
                   next_session, engineVars, heartbeats, now, socket,
                   session_tick, session_input, last_message>>

\* ---- heartbeat_monitor: the ping interval has passed; send the ping
HeartbeatPing(w) ==
    /\ heartbeats[w].pc = "ping_sleep"
    /\ now >= heartbeats[w].wake
    /\ heartbeats' = [heartbeats EXCEPT ![w] =
           IF socket[w].state # "open"
           THEN [@ EXCEPT !.pc = "done", !.wake = 0]
           ELSE [@ EXCEPT !.pc = "pong_sleep", !.wake = now + PongTimeout]]
    /\ UNCHANGED <<lobbyVars, serverVars, next_session, engineVars,
                   active_broadcasters, broadcasters, now, last_pong_time,
                   socket, session_tick, delivered, received, session_input,
                   last_message>>

\* ---- heartbeat_monitor: the pong timeout has passed; the liveness
\* check, then the test of the while loop
HeartbeatCheck(w) ==
    /\ heartbeats[w].pc = "pong_sleep"
    /\ now >= heartbeats[w].wake
    /\ IF pong_overdue(now - get_last_pong_time(w))
       THEN /\ socket' = [socket EXCEPT ![w] =
                             IF @.state = "open"
                             THEN Socket("closed", POLICY_VIOLATION) ELSE @]
            /\ heartbeats' = [heartbeats EXCEPT ![w].pc = "done", ![w].wake = 0]
       ELSE /\ heartbeats' = [heartbeats EXCEPT ![w] =
                                  heartbeat_loop(heartbeats[w].session_id)]
            /\ UNCHANGED socket
    /\ UNCHANGED <<lobbyVars, serverVars, next_session, engineVars,
                   active_broadcasters, broadcasters, now, last_pong_time,
                   session_tick, delivered, received, session_input,
                   last_message>>

\* ---- message start_race in lobby mode
RealtimeLobbyStartRace(w) ==
    /\ WsLobbyStartRace(w)
    /\ PlayerInputs
    /\ UNCHANGED <<engineVars, active_broadcasters, broadcasters, heartbeats,
                   now, last_pong_time, socket, session_tick, delivered,
                   received, last_message>>

\* ---- message input: engine.update_player_input, only `if engine`
RealtimeInput(w, input_data) ==
    /\ ws[w].pc = "loop"
    /\ socket[w].state = "open"
    /\ last_message' = [last_message EXCEPT ![w] = InputMessage(input_data)]
    /\ LET engine == ws[w].engine
           player_id == ws[w].player_id
       IN IF engine # 0 /\ player_id \in DOMAIN session_input[engine]
          THEN session_input' = [session_input EXCEPT
                                    ![engine][player_id] = input_data]
          ELSE UNCHANGED session_input
    /\ UNCHANGED <<lobbyVars, serverVars, next_session, engineVars,
                   active_broadcasters, broadcasters, heartbeats, now,
                   last_pong_time, socket, session_tick, delivered, received>>

(***************************************************************************)
(* Three specifications of the server in real time, each with the tasks    *)
(* and messages of one concern.  A client of direct mode opens a new       *)
(* session only while fewer than MaxRealtimeSessions exist.                *)
(***************************************************************************)
ClientInputs == {AccelerateInput, BrakeInput}

MayOpen(session_id) ==
    session_id \in game_sessions \/ next_session <= MaxRealtimeSessions

\* SpecBroadcast: engine ticks, start_race and the broadcaster
NextBroadcast ==
    \/ \E w \in Conns, s \in {0} \cup SessionIds, p \in Humans :
           MayOpen(s) /\ RealtimeConnectDirect(w, s, p)
    \/ \E w \in Conns : RealtimeAccepted(w)
    \/ \E w \in Conns : RealtimeStartRace(w)
    \/ \E w \in Conns : RealtimeDisconnect(w)
    \/ \E w \in Conns : RealtimeStopped(w)
    \/ \E s \in SessionIds, t \in 1..MaxConns : RealtimeLoopExit(s, t)
    \/ \E s \in SessionIds, moves \in BOOLEAN : GameLoopTick(s, moves)
    \/ \E b \in 1..MaxConns, failing \in SUBSET Conns : Broadcaster(b, failing)

\* SpecHeartbeat: time, pongs, the heartbeat monitors and the end of the
\* tasks of a session
NextHeartbeat ==
    \/ \E w \in Conns, s \in {0} \cup SessionIds, p \in Humans :
           MayOpen(s) /\ RealtimeConnectDirect(w, s, p)
    \/ \E w \in Conns : RealtimeAccepted(w)
    \/ \E w \in Conns : RealtimePong(w)
    \/ \E w \in Conns : RealtimeDisconnect(w)
    \/ \E w \in Conns : RealtimeStopped(w)
    \/ \E s \in SessionIds, t \in 1..MaxConns : RealtimeLoopExit(s, t)
    \/ Advance
    \/ \E b \in 1..MaxConns, failing \in SUBSET Conns : Broadcaster(b, failing)
    \/ \E w \in Conns : HeartbeatPing(w)
    \/ \E w \in Conns : HeartbeatCheck(w)

\* SpecInput: clients of both modes, the race of a session and the input
\* messages
NextInput ==
    \/ \E p \in Humans : RealtimeCreateLobby(p, MaxPlayersChoice)
    \/ \E w \in Conns, l \in LobbyArgs, p \in Humans : RealtimeConnectLobby(w, l, p)
    \/ \E w \in Conns, s \in {0} \cup SessionIds, p \in Humans :
           RealtimeConnectDirect(w, s, p)
    \/ \E w \in Conns : RealtimeAccepted(w)
    \/ \E w \in Conns : RealtimeLobbyStartRace(w)
    \/ \E w \in Conns : RealtimeStartRace(w)
    \/ \E w \in Conns, i \in ClientInputs : RealtimeInput(w, i)
    \/ \E w \in Conns : RealtimeDisconnect(w)
    \/ \E w \in Conns : RealtimeStopped(w)
    \/ \E s \in SessionIds, t \in 1..MaxConns : RealtimeLoopExit(s, t)
    \/ \E s \in SessionIds, moves \in BOOLEAN : GameLoopTick(s, moves)

Init == InitLobby /\ InitServer /\ InitEngine /\ InitRealtime

SpecLobby == Init /\ [][NextLobby]_vars
SpecServer == Init /\ [][NextServer]_vars
SpecEngine == Init /\ [][NextEngine]_vars
SpecBroadcast == Init /\ [][NextBroadcast]_vars
SpecHeartbeat == Init /\ [][NextHeartbeat]_vars
SpecInput == Init /\ [][NextInput]_vars
SpecGrid == Init /\ [][NextGrid]_vars
SpecRestart == Init /\ [][NextRestart]_vars

(***************************************************************************)
(* Properties                                                              *)
(***************************************************************************)

\* C1: once a bot's on_tick has failed with a security or timeout error
\* (the player holds a loaded bot, bot_error and dnf), every later tick
\* leaves the player DNF and invokes none of the bot's hooks.
C1_NoHookAfterBotError ==
    [][tick' = tick + 1 =>
        \A p \in DOMAIN players :
            (players[p].is_bot /\ players[p].bot_instance
                /\ players[p].bot_error /\ players[p].dnf)
            => (players'[p].dnf /\ hooks'[p] = {})]_vars

ProgressFields(player) ==
    <<player.current_checkpoint, player.checkpoints_passed, player.split_times,
      player.is_finished, player.finish_time>>

FailedResult == [error |-> TRUE, actions |-> DefaultInput]
DefaultResult == [error |-> FALSE, actions |-> DefaultInput]

\* C2: in a tick in which the on_tick of bot p fails, p gets bot_error, dnf
\* and the default input; every other bot that is due still gets its
\* on_tick; and no other player's dnf, bot_error, input or race progress
\* differs from what the same tick gives when p's on_tick returns default
\* actions, nor, unless its own on_tick fails, from its dnf and bot_error
\* before the tick.
C2_BotFailureIsolated ==
    \A res \in [BotsToAsk(GameState) -> BotResults] :
        \A p \in DOMAIN res :
            LET failed == _tick(GameState, [res EXCEPT ![p] = FailedResult])
                passed == _tick(GameState, [res EXCEPT ![p] = DefaultResult])
            IN "on_tick" \in failed.hooks[p] =>
                /\ failed.players[p].bot_error
                /\ failed.players[p].dnf
                /\ failed.players[p].input = DefaultInput
                /\ \A q \in DOMAIN players \ {p} :
                    /\ (players[q].is_bot /\ ~players[q].bot_error
                            /\ ~players[q].is_finished /\ ~players[q].dnf)
                        => "on_tick" \in failed.hooks[q]
                    /\ failed.hooks[q] = passed.hooks[q]
                    /\ failed.players[q].dnf = passed.players[q].dnf
                    /\ failed.players[q].bot_error = passed.players[q].bot_error
                    /\ failed.players[q].input = passed.players[q].input
                    /\ ProgressFields(failed.players[q]) = ProgressFields(passed.players[q])
                    /\ ~(q \in DOMAIN res /\ res[q].error) =>
                        /\ failed.players[q].dnf = players[q].dnf
                        /\ failed.players[q].bot_error = players[q].bot_error
                    /\ ~players[q].is_bot =>
                        failed.players[q].input = players[q].input

\* a tick has just failed one bot and asked another, which did not fail
C2_Witness ==
    \E p, q \in DOMAIN players :
        /\ p # q
        /\ "on_tick" \in hooks[p] /\ players[p].bot_error /\ players[p].dnf
        /\ "on_tick" \in hooks[q] /\ ~players[q].bot_error /\ ~players[q].dnf

\* C3: while the race is still Racing after the first finisher, at most
\* GraceTicks ticks have passed since that finish, so Finished comes no
\* later than one tick after the grace period; and in the step that makes
\* the race Finished every player that has not finished is DNF.
C3_GraceEndsRace ==
    [][ /\ (race_info'.status = "racing" /\ race_info'.first_finisher_time # None)
            => clock' - race_info'.first_finisher_time <= GraceTicks
        /\ (race_info.status = "racing" /\ race_info'.status = "finished")
            => \A p \in DOMAIN players' :
                   players'[p].is_finished \/ players'[p].dnf ]_vars

\* the grace period has run out on a player that had not finished
C3_Witness ==
    /\ race_info.status = "finished"
    /\ race_info.first_finisher_time # None
    /\ clock - race_info.first_finisher_time = GraceTicks
    /\ \E p, q \in DOMAIN players :
        /\ players[p].is_finished
        /\ ~players[q].is_finished /\ players[q].dnf

\* C4: while the race is Racing, every player's checkpoints_passed is
\* {0, ..., current_checkpoint - 1} and split_times has current_checkpoint
\* entries.
C4_CheckpointsInOrder ==
    race_info.status = "racing" =>
        \A p \in DOMAIN players :
            /\ players[p].checkpoints_passed = 0..(players[p].current_checkpoint - 1)
            /\ Len(players[p].split_times) = players[p].current_checkpoint

\* a racing player has passed every checkpoint, another one only some
C4_Witness ==
    /\ race_info.status = "racing"
    /\ \E p, q \in DOMAIN players :
        /\ players[p].current_checkpoint = NumCheckpoints
        /\ players[q].current_checkpoint > 0
        /\ players[q].current_checkpoint < NumCheckpoints

\* C5: once the race is Finished, the players with is_finished hold exactly
\* the positions 1..F, in ascending order of finish_time.
C5_FinishedHoldPositions ==
    race_info.status = "finished" =>
        LET finished == {p \in DOMAIN players : players[p].is_finished} IN
        /\ {players[p].position : p \in finished} = 1..Cardinality(finished)
        /\ \A p, q \in finished :
               players[p].position < players[q].position
                   => players[p].finish_time <= players[q].finish_time

\* C6: every DNF player has no position and no points.
C6_DnfUnranked ==
    \A p \in DOMAIN players :
        players[p].dnf => (players[p].position = None /\ players[p].points = 0)

\* the race has been finalized with a DNF player and a player with points
C6_Witness ==
    /\ race_info.status = "finished"
    /\ \E p, q \in DOMAIN players :
        /\ players[p].dnf /\ ~players[p].is_finished
        /\ players[q].points > 0

\* C7: the step in which the last connected client of a direct-mode
\* session disconnects stops the engine loop and removes the session from
\* the registry, at once or when the awaited loop task has ended.
C7_LastDisconnectRemovesSession ==
    [][\A w \in Conns :
        LET s == ws[w].session_id IN
        (/\ ws[w].pc = "loop" /\ ~ws[w].is_lobby_mode
         /\ s \notin lobby_sessions
         /\ SessionKey(s) \in DOMAIN active_connections
         /\ active_connections[SessionKey(s)] = {w}
         /\ SessionKey(s) \notin DOMAIN active_connections')
        => /\ ~engines'[ws[w].engine].running
           /\ s \notin game_sessions' \/ ws'[w].pc = "stopping"]_vars

\* C8: when no handler is running, every registered lobby-created session
\* belongs to a registered lobby, and its engine loop runs.
C8_LobbySessionFollowsLobby ==
    (\A w \in Conns : ws[w].pc \in {"new", "closed"}) =>
        \A s \in lobby_sessions :
            /\ s \in game_sessions => engines[s].running
            /\ s \in game_sessions =>
                   \E l \in DOMAIN lobbies : lobbies[l].game_session_id = s

\* C9: the host of every registered lobby is one of its members.
C9_HostIsMember ==
    \A l \in DOMAIN lobbies : lobbies[l].host_player_id \in MemberIds(lobbies[l])

\* the first host has left and the host role has passed to another member
C9_Witness ==
    \E l \in DOMAIN lobbies :
        \E i \in DOMAIN lobbies[l].members :
            /\ lobbies[l].members[i].player_id = lobbies[l].host_player_id
            /\ lobbies[l].members[i].is_bot \/ ~lobbies[l].members[i].ready

\* C10: no registered lobby has more members than settings.max_players.
C10_MembersWithinMax ==
    \A l \in DOMAIN lobbies :
        Len(lobbies[l].members) <= lobbies[l].settings.max_players

\* the status of a lobby in a manager state; a lobby that has been torn
\* down (or not created yet) is not registered, its last status being
\* Disbanded
StatusIn(M, lobby_id) ==
    IF lobby_id \in DOMAIN M.lobbies THEN M.lobbies[lobby_id].status
    ELSE "disbanded"

\* the operation that takes M to M1 moves lobby_id along one of the
\* edges, or leaves its status alone
MovesAlong(M, M1, lobby_id, edges) ==
    \/ StatusIn(M1, lobby_id) = StatusIn(M, lobby_id)
    \/ <<StatusIn(M, lobby_id), StatusIn(M1, lobby_id)>> \in edges

Teardown == {<<s, "disbanded">> : s \in {"waiting", "starting", "racing", "finished"}}

\* C11: in every reachable state of the manager and for every argument,
\* start_race moves a lobby only Waiting->Starting and only for its host,
\* transition_to_racing only Starting->Racing, finish_race only
\* Racing->Finished, reset_lobby only Finished->Waiting and only for its
\* host; leave_lobby, disband_lobby and cleanup_stale_lobbies only tear a
\* lobby down; create_lobby, join_lobby, add_bot_to_lobby and
\* update_settings change no status; and no operation changes the status
\* of a lobby other than the one it is called on.
C11_StatusMachine ==
    \A l \in LobbyIds, o \in LobbyIds, p \in PlayerIds :
        LET M == Cur
            host == l \in DOMAIN lobbies /\ is_host(lobbies[l], p)
            only(M1, edges) ==
                /\ MovesAlong(M, M1, l, edges)
                /\ o # l => MovesAlong(M, M1, o, {})
        IN /\ only(start_race_op(M, l, p, next_session),
                   IF host THEN {<<"waiting", "starting">>} ELSE {})
           /\ only(transition_to_racing_op(M, l), {<<"starting", "racing">>})
           /\ only(finish_race_op(M, l), {<<"racing", "finished">>})
           /\ only(reset_lobby_op(M, l, p),
                   IF host THEN {<<"finished", "waiting">>} ELSE {})
           /\ only(leave_lobby_op(M, l, p), Teardown)
           /\ only(disband_lobby_op(M, l, p), Teardown)
           /\ \A age \in 0..MaxLobbies :
                  /\ MovesAlong(M, cleanup_stale_lobbies_op(M, age), l, Teardown)
           /\ only(join_lobby_op(M, l, p), {})
           /\ only(add_bot_to_lobby_op(M, l, p), {})
           /\ \A n \in MaxPlayersArgs :
                  /\ only(update_settings_op(M, l, p, [max_players |-> n]), {})
                  /\ l \notin DOMAIN lobbies /\ o # l =>
                         MovesAlong(M, create_lobby_op(M, l, p, n), o, {})

\* a lobby has gone round the whole cycle: a race was started and the
\* lobby has been reset to Waiting
C11_Witness ==
    \E l \in DOMAIN lobbies :
        /\ lobbies[l].status = "waiting"
        /\ lobbies[l].game_session_id = 0
        /\ next_session > 1

\* C12: when the host of a registered lobby leaves (leave_lobby returns
\* True): if members remain, the lobby stays registered under its id and
\* its join code, with every other member kept in order, and its new host
\* is the remaining member that comes first in the insertion order of the
\* members; if none remains, the lobby is removed from the id registry
\* and its join code from the join-code index.
C12_HostLeaves ==
    \A l \in DOMAIN lobbies :
        LET lobby == lobbies[l]
            p == lobby.host_player_id
            M1 == leave_lobby_op(Cur, l, p)
            rest == {i \in DOMAIN lobby.members : lobby.members[i].player_id # p}
        IN p \in MemberIds(lobby) =>
           /\ M1.ret
           /\ rest # {} =>
                /\ l \in DOMAIN M1.lobbies
                /\ lobby.join_code \in DOMAIN M1.join_codes
                /\ M1.join_codes[lobby.join_code] = l
                /\ M1.lobbies[l].status = lobby.status
                /\ MemberIds(M1.lobbies[l]) = MemberIds(lobby) \ {p}
                /\ \E h \in rest :
                      /\ M1.lobbies[l].host_player_id = lobby.members[h].player_id
                      /\ \A i \in rest : h <= i
           /\ rest = {} =>
                /\ l \notin DOMAIN M1.lobbies
                /\ lobby.join_code \notin DOMAIN M1.join_codes

\* the first host has left a lobby of three before any race, and of the
\* two members that remained the one that had joined first is the host
C12_Witness ==
    \E l \in DOMAIN lobbies :
        /\ next_session = 1
        /\ Len(lobbies[l].members) >= 2
        /\ lobbies[l].members[1].player_id = lobbies[l].host_player_id
        /\ lobbies[l].members[1].is_bot \/ ~lobbies[l].members[1].ready

\* the call that led to M1 returned a failure value (False or None) and
\* changed nothing in the manager
Rejected(M1) ==
    /\ ~M1.ret
    /\ M1.lobbies = lobbies
    /\ M1.join_codes = join_codes

\* C13: in every reachable state of the manager, an operation called with
\* a violated precondition returns a failure value and leaves every
\* registered lobby (members, settings, status, host, session id) and the
\* join-code index as they were: any operation on an unknown lobby;
\* update_settings, start_race, reset_lobby and disband_lobby by a caller
\* other than the host; join_lobby, add_bot_to_lobby, update_settings and
\* start_race on a lobby that is not Waiting; join_lobby and
\* add_bot_to_lobby of a new member to a full lobby; add_bot_to_lobby of a
\* bot that is already a member; leave_lobby by a non-member.
C13_FailureChangesNothing ==
    \A l \in LobbyIds, p \in PlayerIds, n \in MaxPlayersArgs :
        LET M == Cur
            unknown == l \notin DOMAIN lobbies
            lobby == lobbies[l]
            non_host == ~unknown /\ p # lobby.host_player_id
            not_waiting == ~unknown /\ lobby.status # "waiting"
            member == ~unknown /\ p \in MemberIds(lobby)
            full == ~unknown /\ ~member
                    /\ Len(lobby.members) >= lobby.settings.max_players
        IN /\ unknown \/ not_waiting \/ full => Rejected(join_lobby_op(M, l, p))
           /\ unknown \/ not_waiting \/ full \/ member
                  => Rejected(add_bot_to_lobby_op(M, l, p))
           /\ unknown \/ non_host \/ not_waiting
                  => Rejected(update_settings_op(M, l, p, [max_players |-> n]))
           /\ unknown \/ non_host \/ not_waiting
                  => Rejected(start_race_op(M, l, p, next_session))
           /\ unknown \/ non_host => Rejected(reset_lobby_op(M, l, p))
           /\ unknown \/ non_host => Rejected(disband_lobby_op(M, l, p))
           /\ unknown \/ ~member => Rejected(leave_lobby_op(M, l, p))
           /\ unknown => Rejected(transition_to_racing_op(M, l))
           /\ unknown => Rejected(finish_race_op(M, l))

\* an operation has just been rejected on a full lobby whose race is on
C13_Witness ==
    /\ ~ret
    /\ \E l \in DOMAIN lobbies :
           /\ is_full(lobbies[l])
           /\ Len(lobbies[l].members) >= 2
           /\ lobbies[l].status = "racing"

\* C14: the step in which the lobby host's start_race message is accepted
\* (a session is created for the lobby and registered) leaves the race of
\* that session in Countdown or beyond: no further message is needed to
\* begin the countdown.
C14_LobbyStartBeginsCountdown ==
    [][\A s \in lobby_sessions' \ lobby_sessions :
           engines'[s].status \in {"countdown", "racing", "finished"}]_vars

SessionOf(w) ==
    IF ~ws[w].is_lobby_mode THEN ws[w].session_id
    ELSE IF ws[w].lobby_id \in DOMAIN lobbies
         THEN lobbies[ws[w].lobby_id].game_session_id
         ELSE 0

\* C16: when an input message arrives from a connected client whose player
\* is in a registered session with the race in Racing, the handler leaves
\* the input of the message in that player's input slot, where the physics
\* step of the next tick reads it.
C16_InputReachesPlayer ==
    [][\A w \in Conns :
        LET s == SessionOf(w)
            p == ws[w].player_id
        IN (/\ last_message'[w] # last_message[w]
            /\ ws[w].pc = "loop"
            /\ s \in game_sessions
            /\ p \in engines[s].players
            /\ engines[s].status = "racing")
           => session_input'[s][p] = last_message'[w].data]_vars

\* C17: for every registered session with at least one connection and
\* every set of connections whose send fails, one broadcast of the
\* broadcaster sends the snapshot to every connection of the session
\* whose send does not fail; each failing connection is then neither in
\* the connection set of the session nor in the connection metadata, and
\* each of the others is still in both.
C17_BroadcastToAll ==
    \A s \in game_sessions :
        LET key == SessionKey(s) IN
        key \in DOMAIN active_connections =>
            \A failing \in SUBSET active_connections[key] :
                LET r == broadcast(CMgr, key, failing)
                    left == IF key \in DOMAIN r.CM.active_connections
                            THEN r.CM.active_connections[key] ELSE {}
                IN /\ r.sent = active_connections[key] \ failing
                   /\ left = active_connections[key] \ failing
                   /\ \A w \in failing : w \notin DOMAIN r.CM.connection_metadata
                   /\ \A w \in active_connections[key] \ failing :
                          w \in DOMAIN connection_metadata
                              => w \in DOMAIN r.CM.connection_metadata

\* a broadcast has reached one client of a session and dropped another,
\* whose socket is open and whose handler still waits for messages
C17_Witness ==
    \E w1 \in Conns, w2 \in Conns :
        /\ w1 \in received
        /\ w1 \in DOMAIN connection_metadata
        /\ ws[w1].pc = "loop" /\ ws[w2].pc = "loop"
        /\ ws[w1].session_id = ws[w2].session_id
        /\ socket[w2].state = "open"
        /\ w2 \notin DOMAIN connection_metadata

\* C18: a step that a state_broadcaster or heartbeat_monitor task takes
\* when it wakes up while its session is no longer in the registry ends
\* the task, and the broadcaster's session id is not in the
\* active-broadcaster set afterwards.
C18_TasksEndWithSession ==
    [][/\ \A w \in Conns :
            (/\ heartbeats[w].pc \in {"ping_sleep", "pong_sleep"}
             /\ heartbeats[w].session_id \notin game_sessions
             /\ heartbeats'[w] # heartbeats[w])
            => heartbeats'[w].pc = "done"
       /\ \A b \in DOMAIN broadcasters :
            (/\ broadcasters[b].pc \in {"created", "sleeping"}
             /\ broadcasters[b].session_id \notin game_sessions
             /\ broadcasters'[b] # broadcasters[b])
            => /\ broadcasters'[b].pc = "done"
               /\ broadcasters[b].session_id \notin active_broadcasters']_vars

\* C19: at a liveness check of a connection's heartbeat monitor (the
\* wake-up that ends the pong timeout), if more than PING_INTERVAL +
\* PONG_TIMEOUT has passed since the last pong recorded for the
\* connection (the connection time if none was), the monitor ends and a
\* socket that is still open is closed with the policy-violation code.
C19_SilentClientClosed ==
    [][\A w \in Conns :
          (/\ heartbeats[w].pc = "pong_sleep"
           /\ heartbeats'[w] # heartbeats[w]
           /\ w \in DOMAIN last_pong_time
           /\ now - last_pong_time[w] > PingInterval + PongTimeout)
          => /\ heartbeats'[w].pc = "done"
             /\ socket[w].state = "open"
                    => socket'[w] = Socket("closed", POLICY_VIOLATION)
             /\ socket[w].state # "open" => socket'[w] = socket[w]]_vars

\* a client that is registered, and whose last recorded pong is older
\* than the limit, has been closed with the policy-violation code
C19_Witness ==
    \E w \in Conns :
        /\ socket[w] = Socket("closed", POLICY_VIOLATION)
        /\ heartbeats[w].pc = "done"
        /\ w \in DOMAIN last_pong_time
        /\ now - last_pong_time[w] > PingInterval + PongTimeout

\* C20: every client connection that has been accepted, in lobby mode
\* or in direct mode, whose handler waits for messages and whose socket
\* is open, has a heartbeat monitor task that has not ended.
C20_EveryConnectionMonitored ==
    \A w \in Conns :
        (ws[w].pc = "loop" /\ socket[w].state = "open")
        => heartbeats[w].pc \in {"ping_sleep", "pong_sleep"}

\* C29: in every reachable state of the manager, for every lobby id and
\* player, join_lobby called twice in a row leaves the same lobbies (the
\* same member list with the same member records, in particular) as
\* join_lobby called once.
C29_JoinTwiceAsOnce ==
    \A l \in LobbyIds, p \in PlayerIds :
        LET once == join_lobby_op(Cur, l, p)
            twice == join_lobby_op(once, l, p)
        IN /\ twice.lobbies = once.lobbies
           /\ twice.join_codes = once.join_codes

\* a player other than the host has just joined a Waiting lobby that
\* still has room, so that a second join finds the member present
C29_Witness ==
    /\ ret
    /\ \E l \in DOMAIN lobbies :
           LET lobby == lobbies[l]
               last == lobby.members[Len(lobby.members)]
           IN /\ lobby.status = "waiting"
              /\ Len(lobby.members) >= 2
              /\ ~is_full(lobby)
              /\ last.player_id # lobby.host_player_id
              /\ ~last.is_bot /\ ~last.ready
              /\ join_lobby_op(Cur, l, last.player_id).ret

\* C30: in every reachable state of the manager, join_lobby for a player
\* who is already a member of a Waiting lobby returns True, whatever the
\* number of members of the lobby.
C30_MemberJoinSucceeds ==
    \A l \in DOMAIN lobbies :
        \A p \in MemberIds(lobbies[l]) :
            lobbies[l].status = "waiting" => join_lobby_op(Cur, l, p).ret

\* the bots whose on_tick the next bot tick calls
TickedBots(G) ==
    {p \in DOMAIN G.players :
        /\ G.players[p].is_bot /\ ~G.players[p].bot_error
        /\ ~G.players[p].is_finished /\ ~G.players[p].dnf}

\* C23: in every reachable state of a race that is on, for every way the
\* on_tick calls of a bot tick can end, a bot whose on_tick raised an
\* exception of its own (the call of a None value included) or returned
\* something that is no mapping has the all-false default in its input
\* slot after the bot tick, is not marked DNF or failed, and has its
\* on_tick called again by the bot tick that follows.
C23_BotLogicErrorIsHarmless ==
    race_info.status = "racing" =>
        \A o \in [TickedBots(GameState) -> OnTickOutcomes] :
            LET res == [p \in DOMAIN o |-> get_bot_actions(o[p], AccelerateInput)]
                G1 == _update_bot_inputs(GameState, res)
                G2 == _update_bot_inputs(NoHooks(G1), res)
            IN \A p \in DOMAIN o :
                   o[p] \in {"returns_other", "raises", "calls_none"}
                   => /\ G1.players[p].input = DefaultInput
                      /\ ~G1.players[p].dnf
                      /\ ~G1.players[p].bot_error
                      /\ "on_tick" \in G2.hooks[p]

\* C24: a step that adds a bot to the player set of a session adds a bot
\* whose code was loaded: a bot that fails to load leaves the player set
\* as it was.
C24_RejectedBotNotAdded ==
    [][\A p \in DOMAIN players' \ DOMAIN players :
           players'[p].is_bot => players'[p].bot_instance]_vars

C27_ForwardCrossingsOnly ==
    [][tick' = tick + 1 =>
        \A p \in DOMAIN players \cap DOMAIN players' :
            LET next == players[p].current_checkpoint
                after == players'[p].current_checkpoint
                prev_x == players[p].prev_position
                curr_x == players'[p].prev_position
            IN /\ after \in {next, next + 1}
               /\ after = next + 1
                      => /\ players[p].has_prev_position
                         /\ prev_x <= CheckpointX(next)
                         /\ CheckpointX(next) < curr_x
               /\ curr_x - prev_x <= 0 => after = next]_vars

\* a player is beyond the line of its next checkpoint, and the tick that
\* follows takes it back over the line during the race without a change
\* of current_checkpoint
C27_Witness ==
    \E p \in DOMAIN players :
        LET cp_x == CheckpointX(players[p].current_checkpoint)
            G1 == _tick(GameState, [q \in BotsToAsk(GameState) |-> DefaultResult])
        IN /\ tick < MaxTick
           /\ players[p].has_prev_position
           /\ ~players[p].is_finished
           /\ players[p].current_checkpoint < NumCheckpoints
           /\ players[p].prev_position > cp_x
           /\ G1.race_info.status = "racing"
           /\ G1.players[p].prev_position <= cp_x
           /\ G1.players[p].current_checkpoint = players[p].current_checkpoint

\* C26: after every tick of a race that is on (the car-to-car collision
\* step has run), any two cars of the session are at least two car radii
\* apart.
C26_NoOverlap ==
    [][(tick' = tick + 1 /\ race_info'.status = "racing") =>
        \A p \in DOMAIN players', q \in DOMAIN players' :
            p # q => Abs(players'[p].car.x - players'[q].car.x) >= 2 * CarRadius]_vars

\* C25: in every reachable state, start_race leaves the race in Countdown
\* with countdown_remaining = COUNTDOWN_SECONDS, no start, finish or
\* first-finisher time and no grace period, keeps the set of players, and
\* leaves every player with its car on the start position, at rest, with
\* the default nitro charges and no nitro active, current_checkpoint = 0,
\* no checkpoint passed, no split time, not finished, not DNF, without
\* position and with 0 points.
C25_StartRaceResets ==
    LET G == engine_start_race(GameState) IN
    /\ G.race_info.status = "countdown"
    /\ G.race_info.countdown_remaining = CountdownTicks
    /\ G.race_info.start_time = None
    /\ G.race_info.finish_time = None
    /\ G.race_info.first_finisher_time = None
    /\ G.race_info.grace_period_remaining = 0
    /\ DOMAIN G.players = DOMAIN players
    /\ \A p \in DOMAIN G.players :
           LET player == G.players[p] IN
           /\ player.car.x = 0 /\ player.car.v = 0
           /\ player.car.nitro_charges = DEFAULT_NITRO_CHARGES
           /\ ~player.car.nitro_active
           /\ player.car.nitro_remaining_ticks = 0
           /\ player.current_checkpoint = 0
           /\ player.checkpoints_passed = {}
           /\ player.split_times = << >>
           /\ ~player.is_finished /\ player.finish_time = None
           /\ ~player.dnf
           /\ player.position = None
           /\ player.points = 0

\* a race has ended with a winner that has used nitro, passed checkpoints
\* and holds points, and with a DNF player; start_race on it begins a
\* countdown
C25_Witness ==
    /\ race_info.status = "finished"
    /\ \E p \in DOMAIN players, q \in DOMAIN players :
           /\ players[p].is_finished /\ players[p].position = 1
           /\ players[p].points > 0
           /\ players[p].split_times # << >>
           /\ players[p].car.x > 0 /\ players[p].car.v > 0
           /\ players[p].car.nitro_charges < DEFAULT_NITRO_CHARGES
           /\ players[q].dnf
    /\ engine_start_race(GameState).race_info.status = "countdown"

\* the state a bot tick of the next step works on, and the views
\* _update_bot_inputs has built for the bots it asks in that step
BotTickState(G) ==
    _update_race_status(NoHooks([G EXCEPT !.tick = @ + 1, !.clock = @ + 1]))

BuiltViews(G) ==
    LET G1 == BotTickState(G) IN
    [p \in (IF G1.race_info.status = "racing" /\ should_run_bot_tick(G1.tick)
            THEN TickedBots(G1) ELSE {})
        |-> _create_bot_game_state(G1, p)]

Distance(G, p, q) == Abs(G.players[q].car.x - G.players[p].car.x)

\* C21: in every view built for a bot, the opponents list has one entry
\* for each other player whose distance from the bot is at most the
\* visibility radius, with that player's position and that distance, and
\* no other entry; the bot itself is not in it.
C21_OpponentsWithinRadius ==
    \A p \in DOMAIN BuiltViews(GameState) :
        LET G1 == BotTickState(GameState)
            opponents == BuiltViews(GameState)[p].opponents
            near == {q \in DOMAIN G1.players \ {p} : Distance(G1, p, q) <= VisibilityRadius}
        IN /\ Len(opponents) = Cardinality(near)
           /\ \A q \in near : \E i \in 1..Len(opponents) :
                  /\ opponents[i].position = G1.players[q].car.x
                  /\ opponents[i].velocity = G1.players[q].car.v
                  /\ opponents[i].distance = Distance(G1, p, q)
           /\ \A i \in 1..Len(opponents) : \E q \in near :
                  /\ opponents[i].position = G1.players[q].car.x
                  /\ opponents[i].distance = Distance(G1, p, q)

\* a bot is shown an opponent that is exactly VisibilityRadius away
C21_Witness ==
    \E p \in DOMAIN BuiltViews(GameState) :
        /\ Len(BuiltViews(GameState)[p].opponents) = 1
        /\ BuiltViews(GameState)[p].opponents[1].distance = VisibilityRadius

\* the other values tried for a player out of sight
AltReach == 6
AltVelocities == {0 - 1, 0, MaxSpeedPerTick}

AltPlayers(G, p, q) ==
    {[G.players[q] EXCEPT !.car.x = x, !.car.v = v, !.current_checkpoint = c] :
        x \in {y \in (G.players[p].car.x - AltReach)..(G.players[p].car.x + AltReach) :
                  Abs(y - G.players[p].car.x) > VisibilityRadius},
        v \in AltVelocities,
        c \in 0..NumCheckpoints}

\* C22: the view built for a bot stays the same when the position, the
\* velocity and the checkpoint progress of the players farther away than
\* the visibility radius are replaced by any other values that keep them
\* farther away than the visibility radius.
C22_FarPlayersInvisible ==
    \A p \in DOMAIN BuiltViews(GameState) :
        LET G1 == BotTickState(GameState)
            far == {q \in DOMAIN G1.players \ {p} : Distance(G1, p, q) > VisibilityRadius}
        IN \A q \in far : \A alt \in AltPlayers(G1, p, q) :
               _create_bot_game_state([G1 EXCEPT !.players[q] = alt], p)
                   = BuiltViews(GameState)[p]

\* a bot is asked while another player is out of its sight
C22_Witness ==
    \E p \in DOMAIN BuiltViews(GameState) :
        \E q \in DOMAIN players \ {p} :
            /\ Distance(BotTickState(GameState), p, q) > VisibilityRadius
            /\ players[q].car.v # 0

\* C39: whenever the race status is Finished, race_info.finish_time is
\* set, whether the race ended because every player finished or because
\* the grace period ran out.
C39_FinishedHasFinishTime ==
    race_info.status = "finished" => race_info.finish_time # None

\* C31: in every tick of a race that is on, the position that the
\* checkpoint-crossing detection of the tick has used for a player (kept
\* as the player's previous position for the next tick) is the position
\* of the player's car after the collision step of that tick.
C31_CrossingAfterCollisions ==
    [][(tick' = tick + 1 /\ BotTickState(GameState).race_info.status = "racing") =>
        \A p \in DOMAIN players \cap DOMAIN players' :
            (~players[p].is_finished /\ players[p].current_checkpoint < NumCheckpoints)
            => /\ players'[p].has_prev_position
               /\ players'[p].prev_position = players'[p].car.x]_vars

\* C33: for the input of every player, the turn direction handed to the
\* physics step is +1 when only turn_right is set, -1 when only turn_left
\* is set, and 0 when both or neither are set.
C33_TurnDirection ==
    \A p \in DOMAIN players :
        LET input == players[p].input IN
        turn_direction(input) =
            IF input.turn_right /\ ~input.turn_left THEN 1
            ELSE IF input.turn_left /\ ~input.turn_right THEN 0 - 1
            ELSE 0

\* C32: a tick leaves the car (position and velocity; the heading never
\* changes on the track axis) of every player that was finished before
\* the tick as it was.
C32_FinishedCarsStay ==
    [][tick' = tick + 1 =>
        \A p \in DOMAIN players \cap DOMAIN players' :
            players[p].is_finished => players'[p].car = players[p].car]_vars

\* during a race a finished player's car, still carrying its velocity,
\* has gone through a tick while a car that is still racing overlapped it
C32_Witness ==
    /\ race_info.status = "racing"
    /\ \E p \in DOMAIN players, q \in DOMAIN players :
          /\ players[p].is_finished /\ players[p].car.v # 0
          /\ players[p].finish_time < clock
          /\ ~players[q].is_finished /\ ~players[q].dnf
          /\ Abs(players[q].car.x - players[p].car.x) < 2 * CarRadius
          /\ players[q].car.v # 0

\* C38: in every state with the race in Countdown or Racing, a start_race
\* request leaves the race as it is: the players (checkpoints, finish
\* flags, positions, cars) and race_info are the same after it.
C38_StartRaceOnlyFromRest ==
    race_info.status \in {"countdown", "racing"}
        => LET G1 == engine_start_race(GameState)
           IN G1.players = players /\ G1.race_info = race_info

\* One race from the grid to its end: players and bots join while the
\* session waits, the race is started once, and the game loop keeps
\* calling _tick as long as it runs.
NextRace ==
    \/ \E p \in RacerHumans : race_info.status = "waiting" /\ AddPlayer(p)
    \/ \E p \in RacerBots, loads \in BOOLEAN :
           race_info.status = "waiting" /\ AddBotPlayer(p, loads)
    \/ \E p \in RacerHumans : UpdatePlayerInput(p, AccelerateInput)
    \/ race_info.status = "waiting" /\ StartRace
    \/ Tick

\* A step of the game loop, told by the tick counter: Tick is the one
\* action that writes it, and it can be taken whenever tick < MaxTick.
LoopStep == tick < MaxTick /\ tick' = tick + 1

SpecRace == Init /\ [][NextRace]_vars /\ WF_tick(LoopStep)

\* every player of the session is finished or DNF
AllDone == /\ DOMAIN players # {}
           /\ \A p \in DOMAIN players : players[p].is_finished \/ players[p].dnf

C34_OneLoopPerEngine ==
    \A s \in DOMAIN engines : Cardinality(engines[s].alive) <= 1

\* C35: the session of every direct-mode client whose handler is in its
\* receive loop is in the session registry.
C35_ConnectedSessionRegistered ==
    \A w \in Conns :
        (ws[w].pc = "loop" /\ ~ws[w].is_lobby_mode)
            => ws[w].session_id \in game_sessions

\* C36: at any time at most one state_broadcaster task that has started
\* and not ended serves a given session.
C36_OneBroadcasterPerSession ==
    \A s \in SessionIds :
        Cardinality({b \in DOMAIN broadcasters :
                        /\ broadcasters[b].session_id = s
                        /\ broadcasters[b].pc = "sleeping"}) <= 1

\* C40: a connection whose handler has left its receive loop is in no
\* connection set of the registry, has no metadata entry, and no player
\* id is mapped to it.
C40_EndedLoopUnregistered ==
    \A w \in Conns :
        ws[w].pc \in {"stopping", "closed"}
            => /\ \A key \in DOMAIN active_connections : w \notin active_connections[key]
               /\ w \notin DOMAIN connection_metadata
               /\ \A p \in DOMAIN player_to_ws : player_to_ws[p] # w

====
